---- MODULE Spec2Model ----
(***************************************************************************)
(* PeekBack: local cache synchronisation and bulk import pipeline.         *)
(*                                                                         *)
(* The module models these parts of the repository, each under its own     *)
(* specification over the same variables:                                  *)
(*   SpecBatch   direct calls of batchAddDevices (firebase/services)       *)
(*   SpecImport  importOSMData writing through batchAddDevices, and        *)
(*               SpecImportLarge, one import of more than one batch        *)
(*   SpecQuery   queryOSMALPRsBatched (chunk loop and de-duplication)      *)
(*   SpecSync    the Map component's bootstrap / subscription effect and   *)
(*               the IndexedDB cache it drives                             *)
(*   SpecVote    thumbsUpDevice and reportDeviceInactive                   *)
(*   SpecCache   the operations of utils/indexedDB.js called directly      *)
(*   SpecSplit   splitBoundingBox in floating point                        *)
(*   SpecRetry   queryOSMALPRs and its retries; SpecRetryFair adds that    *)
(*               every request ends and every backoff timer fires          *)
(*   SpecOpen    overlapping calls of openDB, and clearCache               *)
(*   SpecStream  the subscription callback while the remote store changes  *)
(*   SpecStore   one call of storeDevices, await by await                  *)
(*   SpecReimport  repeated imports while users vote on the documents      *)
(***************************************************************************)
EXTENDS Integers, Sequences, FiniteSets, TLC

(***************************************************************************)
(* Bounds of the model.                                                    *)
(***************************************************************************)
MaxElems == 2          \* longest enumerated list of OSM elements of an import
MaxRuns == 2           \* imports run one after the other
MaxDirectCalls == 2    \* direct calls of batchAddDevices
MaxGrid == 2           \* largest chunksPerDimension of a batched query
MaxFailed == 1         \* chunks of one batched query that fail
MaxReturned == 2       \* elements returned by all chunks of one batched query
MaxAuthChanges == 3    \* changes of the auth-ready signal
MaxFaults == 1         \* object store requests that fail
MaxSnapshots == 1      \* snapshots delivered to the subscription callback
MaxVoteCalls == 2      \* calls of the vote operations
MaxCacheCalls == 2     \* direct calls of the cache operations
MaxSplit == 3          \* largest chunksPerDimension given to splitBoundingBox
MaxOpenCalls == 3      \* calls of openDB (direct, or made by clearCache)
MaxStreamSnapshots == 2 \* snapshots delivered to a subscription while streaming
MaxReimportVotes == 1   \* vote calls made while imports are repeated

(***************************************************************************)
(* JavaScript values. A coordinate is a tagged value, so that undefined,   *)
(* null, NaN and strings stay distinct from numbers.                       *)
(***************************************************************************)
Num(n) == [k |-> "number", v |-> n]
Undefined == [k |-> "undefined", v |-> 0]
Null == [k |-> "null", v |-> 0]
NaN == [k |-> "NaN", v |-> 0]
StrText == [k |-> "string", v |-> 0]       \* a non-numeric string such as "abc"

NoCenter == [has |-> FALSE, lat |-> Undefined, lon |-> Undefined]
Center(la, lo) == [has |-> TRUE, lat |-> Num(la), lon |-> Num(lo)]

\* An element of the Overpass response: {type, id, lat?, lon?, center?}.
\* ver tells two downloads of the same element apart.
Element(t, i, la, lo, c, ver) ==
    [type |-> t, id |-> i, lat |-> la, lon |-> lo, center |-> c, ver |-> ver]

VARIABLES
    \* the remote document store (Firestore collection "devices")
    remote,          \* set of documents
    serverTime,      \* value of the next serverTimestamp()
    nextAutoId,      \* number of auto-generated document identifiers used
    \* direct calls of batchAddDevices
    lastCall,        \* the last direct call and its outcome
    directCalls,     \* number of direct calls made
    \* importOSMData
    ipc,             \* position of the import: "idle", "batch", "done"
    run,             \* number of imports started
    osmElements,     \* the argument of the running import
    results,         \* the result object of the running import
    devicesToImport, \* converted records, input order
    documentIds,     \* their document identifiers, same positions
    bi,              \* loop variable i of the batch loop (0-based offset)
    writeCalls,      \* batchAddDevices calls of the running import, in order
    prevRun,         \* the previous finished import
    \* queryOSMALPRsBatched
    qpc,             \* position of the batched query: "idle", "loop", "done"
    totalChunks,     \* chunks.length
    qi,              \* loop variable i of the chunk loop (0-based)
    allElements,     \* elements of the chunks queried so far, in order
    failedChunks,    \* {chunk, error} of the chunks whose query threw
    uniqueElements,  \* the returned array
    chunkLog,        \* chunk queries made so far, in order, with their outcome
    \* the Map component (Cache Synchronizer) and its IndexedDB cache
    phase,           \* "init", "mounted", "unmounted"
    authLoading,     \* the auth-ready signal of useAuth (loading)
    authChanges,     \* number of changes of authLoading so far
    cleanupFn,       \* the last run of the effect returned its cleanup
    initialLoadDoneRef,
    unsubscribeRef,  \* 0 (null) or the subscription whose cancel function it holds
    activeSubs,      \* live onSnapshot listeners
    subsCreated,     \* listeners created so far
    lpc,             \* position of loadDevices
    cacheStale,      \* local of loadDevices
    cachedDevices,   \* local of loadDevices
    allDevices,      \* local of loadDevices
    validDevices,    \* local of loadDevices
    devices,         \* React state published to the map (setDevices)
    path,            \* "none", "FRESH_FROM_CACHE", "REBUILDING"
    fetches,         \* full remote fetches issued (getAllDevices of the services)
    idb,             \* records of the object store 'devices'
    dbInstance,      \* FALSE (null) or TRUE (an open connection is held)
    engineUp,        \* the storage engine can be opened
    faults,          \* failed object store requests so far
    storageFailed,   \* an IndexedDB operation of this bootstrap failed
    dateNow,         \* Date.now()
    loadStarts,      \* calls of loadDevices so far
    loadsRunning,    \* calls of loadDevices that have not returned
    cleanupRan,      \* the effect cleanup has run
    callbacks,       \* runs of the subscription callback, in order of delivery
    \* votes (thumbsUpDevice, reportDeviceInactive)
    voteCalls,       \* the calls made so far, in the order of their reads
    voteClock,       \* number of vote steps taken so far
    \* direct calls of the IndexedDB cache operations
    cacheCall,       \* the last call and its result
    cacheCalls,      \* number of calls so far
    \* splitBoundingBox
    spc,             \* "idle" or "done"
    splitBounds,     \* the region given
    splitGrid,       \* the chunksPerDimension given
    chunks,          \* the array returned
    \* queryOSMALPRs
    rpc,             \* "idle", "fetching", "waiting", "returned", "raised"
    retryCount,      \* retryCount of the current invocation
    requestLog,      \* bounding box of every request issued, in order
    responses,       \* outcome of every request, in order
    waits,           \* waitTime of every backoff, in order
    queryError,      \* the error raised to the caller
    \* openDB
    dbHandle,        \* dbInstance as an identity: 0 (null) or a connection
    openCalls,       \* every call of openDB so far and where it stands
    connections,     \* number of indexedDB.open requests issued
    \* storeDevices
    storeCall        \* the call of storeDevices: arguments, position, result

remoteVars == <<remote, serverTime, nextAutoId>>
batchVars == <<lastCall, directCalls>>
importVars == <<ipc, run, osmElements, results, devicesToImport, documentIds,
                bi, writeCalls, prevRun>>
queryVars == <<qpc, totalChunks, qi, allElements, failedChunks, uniqueElements,
               chunkLog>>
syncVars == <<phase, authLoading, authChanges, cleanupFn, initialLoadDoneRef,
              unsubscribeRef, activeSubs, subsCreated, lpc, cacheStale,
              cachedDevices, allDevices, validDevices, devices, path, fetches,
              idb, dbInstance, engineUp, faults, storageFailed, dateNow, loadStarts,
              loadsRunning, cleanupRan, callbacks>>
voteVars == <<voteCalls, voteClock>>
cacheVars == <<cacheCall, cacheCalls>>
splitVars == <<spc, splitBounds, splitGrid, chunks>>
retryVars == <<rpc, retryCount, requestLog, responses, waits, queryError>>
openVars == <<dbHandle, openCalls, connections>>
storeCallVars == <<storeCall>>
extVars == <<voteVars, cacheVars, splitVars, retryVars, openVars,
             storeCallVars>>
vars == <<remoteVars, batchVars, importVars, queryVars, syncVars, extVars>>

(***************************************************************************)
(* Bulk import: conversion and identifiers (utils/osmImporter.js).         *)
(***************************************************************************)
BATCH_SIZE == 500

\* convertOSMToPeekBack: a node takes lat/lon as they are (also when they
\* are missing), any other element takes its center, and an element with
\* neither gives null. Only the fields the pipeline depends on are kept.
NullDevice ==
    [isNull |-> TRUE, latitude |-> Undefined, longitude |-> Undefined,
     osmId |-> 0, osmType |-> "none"]

convertOSMToPeekBack(osmElement) ==
    IF osmElement.type = "node"
    THEN [isNull |-> FALSE, latitude |-> osmElement.lat,
          longitude |-> osmElement.lon,
          osmId |-> osmElement.id, osmType |-> osmElement.type]
    ELSE IF osmElement.center.has
    THEN [isNull |-> FALSE, latitude |-> osmElement.center.lat,
          longitude |-> osmElement.center.lon,
          osmId |-> osmElement.id, osmType |-> osmElement.type]
    ELSE NullDevice

generateOSMDocumentId(osmId, osmType) ==
    "osm_" \o osmType \o "_" \o ToString(osmId)

\* The record pushed on devicesToImport (source, osmType and importedAt are
\* stripped, the vote fields are reset).
ImportRecord(deviceData) ==
    [latitude |-> deviceData.latitude, longitude |-> deviceData.longitude,
     osmId |-> deviceData.osmId,
     thumbsUp |-> 0, thumbsUpUsers |-> {},
     inactiveReports |-> 0, inactiveReportUsers |-> {}]

\* The conversion loop of importOSMData: elements that convert to null are
\* counted as skipped, the others are pushed in input order together with
\* their document identifier.
\* The skipped elements are not counted (the weakened loop).
ConvertAllUncounted(elems) ==
    LET conv == [k \in 1..Len(elems) |-> convertOSMToPeekBack(elems[k])]
        kept == SelectSeq(conv, LAMBDA d : ~d.isNull)
    IN  [devices |-> [k \in 1..Len(kept) |-> ImportRecord(kept[k])],
         ids |-> [k \in 1..Len(kept) |->
                    generateOSMDocumentId(kept[k].osmId, kept[k].osmType)],
         skipped |-> 0]
ConvertAll(elems) ==
    LET conv == [k \in 1..Len(elems) |-> convertOSMToPeekBack(elems[k])]
        kept == SelectSeq(conv, LAMBDA d : ~d.isNull)
    IN  [devices |-> [k \in 1..Len(kept) |-> ImportRecord(kept[k])],
         ids |-> [k \in 1..Len(kept) |->
                    generateOSMDocumentId(kept[k].osmId, kept[k].osmType)],
         skipped |-> Len(elems) - Len(kept)]

(***************************************************************************)
(* Remote Store Adapter: batchAddDevices (firebase/services).              *)
(***************************************************************************)
\* documentIds = null
NoIds == [given |-> FALSE, ids |-> <<>>]
Ids(s) == [given |-> TRUE, ids |-> s]

\* The checks made before the write batch is built.
BatchAddDevicesGuard(devicesArray, docIds) ==
    IF Len(devicesArray) = 0 THEN "return"
    ELSE IF Len(devicesArray) > 500 THEN "throw_size"
    ELSE IF docIds.given /\ Len(docIds.ids) # Len(devicesArray) THEN "throw_ids"
    ELSE "write"

DocRefIdAuto(docIds, index, autoBase) == "auto_" \o ToString(autoBase + index)

\* doc(devicesRef, documentIds[index]) or doc(devicesRef) with a new identifier
DocRefId(docIds, index, autoBase) ==
    IF docIds.given THEN docIds.ids[index]
    ELSE "auto_" \o ToString(autoBase + index)

DeviceDoc(deviceData, id, now) ==
    [id |-> id,
     latitude |-> deviceData.latitude, longitude |-> deviceData.longitude,
     osmId |-> deviceData.osmId,
     thumbsUp |-> deviceData.thumbsUp,
     thumbsUpUsers |-> deviceData.thumbsUpUsers,
     inactiveReports |-> deviceData.inactiveReports,
     inactiveReportUsers |-> deviceData.inactiveReportUsers,
     updatedAt |-> now]

\* batch.set refuses a document with an undefined field value.
HasUndefinedField(deviceData) ==
    deviceData.latitude = Undefined \/ deviceData.longitude = Undefined

\* batch.set(docRef, deviceDoc, {merge: false}) for every record, committed
\* as one unit: a document with the same identifier is replaced, and of two
\* records of the batch with one identifier the later one stays.
\* A document that exists is left as it is (the weakened write).
BatchCommitKeepsExisting(store, devicesArray, docIds, now, autoBase) ==
    LET n == Len(devicesArray)
        idAt(k) == DocRefId(docIds, k, autoBase)
        existing == {d.id : d \in store}
        last == {k \in 1..n : \A j \in (k + 1)..n : idAt(j) # idAt(k)}
    IN  store \cup {DeviceDoc(devicesArray[k], idAt(k), now) :
                      k \in {i \in last : idAt(i) \notin existing}}
BatchCommit(store, devicesArray, docIds, now, autoBase) ==
    LET n == Len(devicesArray)
        idAt(k) == DocRefId(docIds, k, autoBase)
        written == {idAt(k) : k \in 1..n}
        last == {k \in 1..n : \A j \in (k + 1)..n : idAt(j) # idAt(k)}
    IN  {d \in store : d.id \notin written}
        \cup {DeviceDoc(devicesArray[k], idAt(k), now) : k \in last}

\* The outcomes batchAddDevices can have for the given arguments.
\*   "return"  nothing to do          "throw_size", "throw_ids"  contract error
\*   "throw"   set or commit failed   "ok"  committed
BatchOutcomes(devicesArray, docIds) ==
    LET g == BatchAddDevicesGuard(devicesArray, docIds)
    IN  IF g # "write" THEN {g}
        ELSE IF \E k \in 1..Len(devicesArray) : HasUndefinedField(devicesArray[k])
        THEN {"throw"}
        ELSE {"ok", "throw"}

Raised(outcome) == outcome \in {"throw_size", "throw_ids", "throw"}

\* The remote store after a call with the given outcome.
BatchAddDevices(store, devicesArray, docIds, outcome, now, autoBase) ==
    IF outcome = "ok"
    THEN BatchCommit(store, devicesArray, docIds, now, autoBase)
    ELSE store

(***************************************************************************)
(* Region chunking and de-duplication: queryOSMALPRsBatched.               *)
(***************************************************************************)
\* chunks.length for splitBoundingBox(bounds, chunksPerDimension)
ChunkCount(chunksPerDimension) == chunksPerDimension * chunksPerDimension

Indices(seq) == [k \in 1..Len(seq) |-> k]

UniqueByIdFirst(all) ==
    LET firsts == SelectSeq(Indices(all),
                            LAMBDA k : \A j \in 1..(k - 1) : all[j].id # all[k].id)
    IN  [m \in 1..Len(firsts) |-> all[firsts[m]]]

\* Array.from(new Map(allElements.map(el => [el.id, el])).values()): one
\* entry per el.id, at the place of the first element with that id, holding
\* the last element with that id.
UniqueById(all) ==
    LET firsts == SelectSeq(Indices(all),
                            LAMBDA k : \A j \in 1..(k - 1) : all[j].id # all[k].id)
        lastOf(id) == CHOOSE k \in 1..Len(all) :
                        /\ all[k].id = id
                        /\ \A j \in (k + 1)..Len(all) : all[j].id # id
    IN  [m \in 1..Len(firsts) |-> all[lastOf(all[firsts[m]].id)]]

\* The entry pushed on failedChunks in the catch block of chunk i (0-based).
FailedEntryZeroBased(i, message) == [chunk |-> i, error |-> message]

FailedEntry(i, message) == [chunk |-> i + 1, error |-> message]

(***************************************************************************)
(* Inputs.                                                                 *)
(***************************************************************************)
\* A record as a caller of batchAddDevices passes it.
Dev(i) ==
    [latitude |-> Num(i), longitude |-> Num(i), osmId |-> i,
     thumbsUp |-> 0, thumbsUpUsers |-> {},
     inactiveReports |-> 0, inactiveReportUsers |-> {}]

\* A document submitted by a user before the run (addDevice).
UserDoc == DeviceDoc(Dev(0), "d1", 0)

InitialRemotes == {{}, {UserDoc}}

\* Sequences over S of length at most n.
SeqsUpTo(S, n) == UNION {[1..m -> S] : m \in 0..n}

DirectDevices ==
    {<<>>, <<Dev(1)>>, <<Dev(1), Dev(2)>>, <<Dev(1), Dev(1)>>,
     [k \in 1..500 |-> Dev(k)], [k \in 1..501 |-> Dev(k)]}

\* Identifier arrays a caller can pass for n records: none, one per record,
\* one too few, one too many.
DirectIds(n) ==
    {NoIds}
    \cup {Ids([k \in 1..m |-> generateOSMDocumentId(k, "node")]) :
            m \in {n, n + 1} \cup (IF n > 0 THEN {n - 1} ELSE {})}

\* Elements as the Overpass API returns them: nodes carry lat/lon, ways and
\* relations carry a center when the server could compute one.
SmallElements ==
    {Element("node", 1, Num(10), Num(20), NoCenter, 1),
     Element("way", 1, Undefined, Undefined, Center(11, 21), 1),
     Element("relation", -3, Undefined, Undefined, NoCenter, 1)}

\* Arrays with a node object that lacks lat and lon.
BareNodeInputs ==
    {<<Element("node", 2, Undefined, Undefined, NoCenter, 1)>>,
     <<Element("node", 1, Num(10), Num(20), NoCenter, 1),
       Element("node", 2, Undefined, Undefined, NoCenter, 1)>>}

ImportInputs == SeqsUpTo(SmallElements, MaxElems) \cup BareNodeInputs

\* Large imports: n nodes, or n elements of which every seventh is a way
\* without a center.
BigInput(n, mixed) ==
    [k \in 1..n |->
        IF mixed /\ k % 7 = 0
        THEN Element("way", k, Undefined, Undefined, NoCenter, 1)
        ELSE Element("node", k, Num(k), Num(k), NoCenter, 1)]

LargeSizes == {499, 500, 501, 1000, 1001, 1200, 1500}

LargeInputs == {BigInput(n, mixed) : n \in LargeSizes, mixed \in BOOLEAN}

(***************************************************************************)
(* Initial values.                                                         *)
(***************************************************************************)
NoCall == [n |-> 0, idsGiven |-> FALSE, idsLen |-> 0, outcome |-> "none",
           before |-> {}]
NoResults == [total |-> 0, imported |-> 0, skipped |-> 0, errors |-> 0,
              errorsList |-> <<>>]
NoRun == [n |-> 0, elems |-> <<>>, results |-> NoResults, remote |-> {}]

RemoteInit ==
    /\ remote \in InitialRemotes
    /\ serverTime = 1
    /\ nextAutoId = 0

BatchIdle ==
    /\ lastCall = NoCall
    /\ directCalls = 0

ImportIdle ==
    /\ ipc = "idle"
    /\ run = 0
    /\ osmElements = <<>>
    /\ results = NoResults
    /\ devicesToImport = <<>>
    /\ documentIds = <<>>
    /\ bi = 0
    /\ writeCalls = <<>>
    /\ prevRun = NoRun

(***************************************************************************)
(* SpecBatch: callers of batchAddDevices.                                  *)
(***************************************************************************)
DirectBatchAdd ==
    /\ directCalls < MaxDirectCalls
    /\ \E devicesArray \in DirectDevices :
       \E docIds \in DirectIds(Len(devicesArray)) :
       \E outcome \in BatchOutcomes(devicesArray, docIds) :
          /\ remote' = BatchAddDevices(remote, devicesArray, docIds, outcome,
                                       serverTime, nextAutoId)
          /\ serverTime' = IF outcome = "ok" THEN serverTime + 1 ELSE serverTime
          /\ nextAutoId' =
                IF ~docIds.given /\ outcome \in {"ok", "throw"}
                THEN nextAutoId + Len(devicesArray) ELSE nextAutoId
          /\ lastCall' = [n |-> Len(devicesArray), idsGiven |-> docIds.given,
                          idsLen |-> Len(docIds.ids), outcome |-> outcome,
                          before |-> remote]
    /\ directCalls' = directCalls + 1
    /\ UNCHANGED <<importVars, queryVars, syncVars, extVars>>

QueryIdle ==
    /\ qpc = "idle"
    /\ totalChunks = 0
    /\ qi = 0
    /\ allElements = <<>>
    /\ failedChunks = <<>>
    /\ uniqueElements = <<>>
    /\ chunkLog = <<>>

\* No vote operation has been called.
VoteIdle ==
    /\ voteCalls = <<>>
    /\ voteClock = 0

\* No cache operation has been called directly.
NoBounds == [south |-> 0, north |-> 0, west |-> 0, east |-> 0]
NoCacheCall ==
    [op |-> "none", outcome |-> "none", raised |-> FALSE, ret |-> "none",
     records |-> {}, bounds |-> NoBounds, before |-> {}]

CacheIdle ==
    /\ cacheCall = NoCacheCall
    /\ cacheCalls = 0

SplitIdle ==
    /\ spc = "idle"
    /\ splitBounds = NoBounds
    /\ splitGrid = 0
    /\ chunks = <<>>

NoQueryError == [kind |-> "none", status |-> 0]
RetryIdle ==
    /\ rpc = "idle"
    /\ retryCount = 0
    /\ requestLog = <<>>
    /\ responses = <<>>
    /\ waits = <<>>
    /\ queryError = NoQueryError

\* openDB has not been called: dbInstance is null.
OpenIdle ==
    /\ dbHandle = 0
    /\ openCalls = <<>>
    /\ connections = 0

\* storeDevices has not been called.
NoStoreCall ==
    [pc |-> "idle", devices |-> <<>>, isFullRefresh |-> FALSE, batchIndex |-> 0,
     devicesToRemove |-> {}, ret |-> "none", failed |-> FALSE, before |-> {}]
StoreIdle == storeCall = NoStoreCall

ExtIdle ==
    VoteIdle /\ CacheIdle /\ SplitIdle /\ RetryIdle /\ OpenIdle /\ StoreIdle

\* The Map component is not rendered.
SyncIdle ==
    /\ phase = "init"
    /\ authLoading = TRUE
    /\ authChanges = 0
    /\ cleanupFn = FALSE
    /\ initialLoadDoneRef = FALSE
    /\ unsubscribeRef = 0
    /\ activeSubs = {}
    /\ subsCreated = 0
    /\ lpc = "none"
    /\ cacheStale = TRUE
    /\ cachedDevices = {}
    /\ allDevices = {}
    /\ validDevices = {}
    /\ devices = {}
    /\ path = "none"
    /\ fetches = 0
    /\ idb = {}
    /\ dbInstance = FALSE
    /\ engineUp = TRUE
    /\ faults = 0
    /\ storageFailed = FALSE
    /\ dateNow = 0
    /\ loadStarts = 0
    /\ loadsRunning = 0
    /\ cleanupRan = FALSE
    /\ callbacks = <<>>

InitBatch == RemoteInit /\ BatchIdle /\ ImportIdle /\ QueryIdle /\ SyncIdle /\ ExtIdle
NextBatch == DirectBatchAdd
SpecBatch == InitBatch /\ [][NextBatch]_vars

(***************************************************************************)
(* SpecImport: importOSMData(osmElements, batchAddDevices, user).          *)
(***************************************************************************)
Min(a, b) == IF a < b THEN a ELSE b
Range(seq) == {seq[k] : k \in 1..Len(seq)}

\* The call, up to the first await: the result object and the conversion.
StartImportOf(inputs, maxRuns) ==
    /\ ipc \in {"idle", "done"}
    /\ run < maxRuns
    /\ \E elems \in inputs :
          LET c == ConvertAll(elems)
          IN  /\ osmElements' = elems
              /\ results' = [total |-> Len(elems), imported |-> 0,
                             skipped |-> c.skipped, errors |-> 0,
                             errorsList |-> <<>>]
              /\ devicesToImport' = c.devices
              /\ documentIds' = c.ids
              /\ ipc' = IF Len(c.devices) > 0 THEN "batch" ELSE "done"
    /\ run' = run + 1
    /\ bi' = 0
    /\ writeCalls' = <<>>
    /\ prevRun' = IF ipc = "done"
                  THEN [n |-> run, elems |-> osmElements, results |-> results,
                        remote |-> remote]
                  ELSE prevRun
    /\ UNCHANGED <<remoteVars, batchVars, queryVars, syncVars, extVars>>

\* array.slice(i, i + BATCH_SIZE), i counted from 0
BatchSliceShort(array, i) ==
    SubSeq(array, i + 1, Min(i + BATCH_SIZE - 1, Len(array)))

BatchSlice(array, i) == SubSeq(array, i + 1, Min(i + BATCH_SIZE, Len(array)))

\* The counting of one batch: imported on success, errors and an errorsList
\* entry in the catch block.
CountBatchOne(res, batchNumber, count, outcome) ==
    IF Raised(outcome)
    THEN [res EXCEPT
            !.errors = @ + 1,
            !.errorsList = Append(@, [batch |-> batchNumber, count |-> count])]
    ELSE [res EXCEPT !.imported = @ + count]

CountBatch(res, batchNumber, count, outcome) ==
    IF Raised(outcome)
    THEN [res EXCEPT
            !.errors = @ + count,
            !.errorsList = Append(@, [batch |-> batchNumber, count |-> count])]
    ELSE [res EXCEPT !.imported = @ + count]

\* One turn of the batch loop: slice, await batchAddDevices, count.
ImportBatch ==
    /\ ipc = "batch"
    /\ LET batch == BatchSlice(devicesToImport, bi)
           batchIds == BatchSlice(documentIds, bi)
           batchNumber == (bi \div BATCH_SIZE) + 1
       IN  \E outcome \in BatchOutcomes(batch, Ids(batchIds)) :
             /\ remote' = BatchAddDevices(remote, batch, Ids(batchIds), outcome,
                                          serverTime, nextAutoId)
             /\ serverTime' = IF outcome = "ok" THEN serverTime + 1
                              ELSE serverTime
             /\ results' = CountBatch(results, batchNumber, Len(batch), outcome)
             /\ writeCalls' = Append(writeCalls,
                                     [devices |-> batch, ids |-> batchIds,
                                      outcome |-> outcome])
    /\ bi' = bi + BATCH_SIZE
    /\ ipc' = IF bi + BATCH_SIZE < Len(devicesToImport) THEN "batch" ELSE "done"
    /\ UNCHANGED <<nextAutoId, batchVars, run, osmElements, devicesToImport,
                   documentIds, prevRun, queryVars, syncVars, extVars>>

StartImport == StartImportOf(ImportInputs, MaxRuns)
StartLargeImport == StartImportOf(LargeInputs, 1)

InitImport == RemoteInit /\ BatchIdle /\ ImportIdle /\ QueryIdle /\ SyncIdle /\ ExtIdle
NextImport == StartImport \/ ImportBatch
SpecImport == InitImport /\ [][NextImport]_vars

NextImportLarge == StartLargeImport \/ ImportBatch
SpecImportLarge == InitImport /\ [][NextImportLarge]_vars

(***************************************************************************)
(* SpecQuery: queryOSMALPRsBatched(bounds, chunksPerDimension).            *)
(***************************************************************************)
\* Elements the chunks can return: one node seen in two versions, a way
\* with the node's numeric id, and another node.
QueryElements ==
    {Element("node", 5, Num(10), Num(20), NoCenter, 1),
     Element("node", 5, Num(10), Num(20), NoCenter, 2),
     Element("way", 5, Undefined, Undefined, Center(11, 21), 1),
     Element("node", 6, Num(12), Num(22), NoCenter, 1)}

\* Messages of the errors queryOSMALPRs throws.
QueryErrors ==
    {"Rate limit exceeded after multiple retries. Please try again later with a smaller region.",
     "Overpass API error: Bad Request"}

\* The call, up to the first chunk's query.
StartBatchedQuery ==
    /\ qpc = "idle"
    /\ \E chunksPerDimension \in 1..MaxGrid :
          totalChunks' = ChunkCount(chunksPerDimension)
    /\ qpc' = "loop"
    /\ qi' = 0
    /\ allElements' = <<>>
    /\ failedChunks' = <<>>
    /\ UNCHANGED <<uniqueElements, chunkLog, remoteVars, batchVars, importVars,
                   syncVars, extVars>>

\* What follows the loop: the de-duplication and the return.
FinishQuery(all, i) ==
    IF i < totalChunks
    THEN /\ qpc' = "loop"
         /\ UNCHANGED uniqueElements
    ELSE /\ qpc' = "done"
         /\ uniqueElements' = UniqueById(all)

\* One turn of the chunk loop in which queryOSMALPRs(chunk) returns.
QueryChunkOk ==
    /\ qpc = "loop"
    /\ \E elements \in SeqsUpTo(QueryElements, MaxReturned - Len(allElements)) :
          /\ allElements' = allElements \o elements
          /\ chunkLog' = Append(chunkLog, [chunk |-> qi + 1, ok |-> TRUE,
                                           elements |-> elements,
                                           error |-> ""])
          /\ FinishQuery(allElements \o elements, qi + 1)
    /\ qi' = qi + 1
    /\ UNCHANGED <<totalChunks, failedChunks, remoteVars, batchVars, importVars,
                   syncVars, extVars>>

\* One turn of the chunk loop in which queryOSMALPRs(chunk) throws.
QueryChunkFails ==
    /\ qpc = "loop"
    /\ Len(failedChunks) < MaxFailed
    /\ \E message \in QueryErrors :
          /\ failedChunks' = Append(failedChunks, FailedEntry(qi, message))
          /\ chunkLog' = Append(chunkLog, [chunk |-> qi + 1, ok |-> FALSE,
                                           elements |-> <<>>,
                                           error |-> message])
    /\ FinishQuery(allElements, qi + 1)
    /\ qi' = qi + 1
    /\ UNCHANGED <<totalChunks, allElements, remoteVars, batchVars, importVars,
                   syncVars, extVars>>

\* return uniqueElements: the value the caller of queryOSMALPRsBatched gets
\* is the array of merged elements and nothing else (failedChunks goes to
\* the progress callback only).
QueryReturn == [elements |-> uniqueElements]

InitQuery ==
    /\ remote = {}
    /\ serverTime = 1
    /\ nextAutoId = 0
    /\ BatchIdle /\ ImportIdle /\ QueryIdle /\ SyncIdle /\ ExtIdle
NextQuery == StartBatchedQuery \/ QueryChunkOk \/ QueryChunkFails
SpecQuery == InitQuery /\ [][NextQuery]_vars

(***************************************************************************)
(* SpecSync: the Map component's device effect (bootstrap, live            *)
(* subscription, cleanup) over the IndexedDB cache.                        *)
(***************************************************************************)
CACHE_META_KEY == "cache_metadata"
hours24 == 24 * 60 * 60 * 1000

\* The timestamp of the metadata record of a cache filled earlier.
CachedAt == 1

\* isNaN(x): Number(x) is NaN for NaN, undefined and a non-numeric string.
isNaN(x) == x.k \in {"NaN", "undefined", "string"}

\* The coordinate filter of loadDevices.
\* No check of one coordinate (the weakened filter).
HasValidCoordinatesLatOnly(device) ==
    /\ device.latitude.k \notin {"null", "undefined"}
    /\ ~isNaN(device.latitude)
HasValidCoordinates(device) ==
    /\ device.latitude.k \notin {"null", "undefined"}
    /\ device.longitude.k \notin {"null", "undefined"}
    /\ ~isNaN(device.latitude)
    /\ ~isNaN(device.longitude)

\* The record stored under CACHE_META_KEY.
Metadata(timestamp, deviceCount) ==
    [id |-> CACHE_META_KEY, timestamp |-> timestamp, deviceCount |-> deviceCount]

\* store.put(record): the object store is keyed by id.
\* A record whose key is in the store already is left as it is (the
\* weakened put, store.add without the error).
IdbPutIfAbsent(store, record) ==
    IF \E r \in store : r.id = record.id THEN store ELSE store \cup {record}
IdbPut(store, record) == {r \in store : r.id # record.id} \cup {record}
IdbPutAll(store, records) ==
    LET ids == {d.id : d \in records}
    IN  {r \in store : r.id \notin ids} \cup records

\* store.get(CACHE_META_KEY)
MetaRecords(store) == {r \in store : r.id = CACHE_META_KEY}
DeviceRecords(store) == {r \in store : r.id # CACHE_META_KEY}

\* store.clear()
\* Nothing is removed (the weakened clear).
ClearedStoreKeepsAll(store) == store
ClearedStore(store) == {}

\* isCacheStale over the result of getCacheMetadata.
\* An age of exactly 24 hours counts as stale (the weakened comparison).
IsStaleAtThreshold(store, t) ==
    \/ MetaRecords(store) = {}
    \/ \E meta \in MetaRecords(store) :
          \/ meta.timestamp = 0
          \/ t - meta.timestamp >= hours24
IsStale(store, t) ==
    \/ MetaRecords(store) = {}
    \/ \E meta \in MetaRecords(store) :
          \/ meta.timestamp = 0
          \/ t - meta.timestamp > hours24

\* What one IndexedDB operation can do: openDB rejects while the engine is
\* unavailable; otherwise the request succeeds or fails.
StorageOutcomes(up, failedSoFar) ==
    IF ~up THEN {"open_failed"}
    ELSE {"ok"} \cup (IF failedSoFar < MaxFaults THEN {"request_failed"} ELSE {})

\* A document of the remote store with the given coordinates.
SyncDoc(id, la, lo) ==
    DeviceDoc([Dev(0) EXCEPT !.latitude = la, !.longitude = lo], id, 0)

SyncDocs ==
    {SyncDoc("a", Num(1), Num(1)), SyncDoc("b", Num(2), Num(2)),
     SyncDoc("c", Null, Num(3)), SyncDoc("d", Num(3), Null),
     SyncDoc("e", Num(4), NaN)}

\* Contents of the object store left by earlier sessions.
InitialCaches ==
    {{}, {Metadata(CachedAt, 0)},
     {SyncDoc("a", Num(9), Num(9)), SyncDoc("z", Num(5), Num(5)),
      Metadata(CachedAt, 2)}}

\* setDevices: a state update of an unmounted component is dropped.
SetDevices(value) == IF phase = "mounted" THEN value ELSE devices

\* subscribeToRealTimeUpdates: the cancel function held in unsubscribeRef is
\* called, then the new listener's cancel function is stored.
\* The new cancel function is not stored (the weakened routine).
SubscribeNotStored(active, ref, created) ==
    [active |-> (active \ {ref}) \cup {created + 1}, ref |-> ref]
SubscribeToRealTimeUpdates(active, ref, created) ==
    [active |-> (active \ {ref}) \cup {created + 1}, ref |-> created + 1]

\* The cleanup returned by the effect.
Cleanup(active, ref) == IF ref # 0 THEN active \ {ref} ELSE active

\* The guards of the effect body: loadDevices is called.
\* Without the check of initialLoadDoneRef (the weakened guard).
EffectStartsAlways(loading, done) == ~loading
EffectStarts(loading, done) == ~loading /\ ~done

lifeVars == <<phase, authLoading, authChanges, cleanupFn, cleanupRan>>
subVars == <<unsubscribeRef, activeSubs, subsCreated>>
localVars == <<cacheStale, cachedDevices, allDevices, validDevices, path,
               fetches>>
storeVars == <<idb, dbInstance, faults, storageFailed>>
envVars == <<engineUp, dateNow>>
otherVars == <<remoteVars, batchVars, importVars, queryVars, extVars>>

\* The effect body run with the given value of authLoading: after the two
\* guards it sets initialLoadDoneRef, calls loadDevices (which runs up to
\* its first await) and returns the cleanup.
RunEffect(loading) ==
    IF EffectStarts(loading, initialLoadDoneRef)
    THEN /\ initialLoadDoneRef' = TRUE
         /\ lpc' = "stale"
         /\ loadStarts' = loadStarts + 1
         /\ loadsRunning' = loadsRunning + 1
         /\ cleanupFn' = TRUE
    ELSE /\ cleanupFn' = FALSE
         /\ UNCHANGED <<initialLoadDoneRef, lpc, loadStarts, loadsRunning>>

\* The component is rendered: the effect runs for the first time.
Mount ==
    /\ phase = "init"
    /\ phase' = "mounted"
    /\ RunEffect(authLoading)
    /\ UNCHANGED <<authLoading, authChanges, cleanupRan, subVars, localVars,
                   storeVars, envVars, devices, otherVars, callbacks>>

\* authLoading changes: the cleanup of the previous run of the effect is
\* called (if that run returned one), then the effect body runs again.
AuthChange ==
    /\ phase = "mounted"
    /\ authChanges < MaxAuthChanges
    /\ authLoading' = ~authLoading
    /\ authChanges' = authChanges + 1
    /\ activeSubs' = IF cleanupFn THEN Cleanup(activeSubs, unsubscribeRef)
                     ELSE activeSubs
    /\ cleanupRan' = (cleanupRan \/ cleanupFn)
    /\ RunEffect(authLoading')
    /\ UNCHANGED <<phase, unsubscribeRef, subsCreated, localVars, storeVars,
                   envVars, devices, otherVars, callbacks>>

\* The component is removed: the cleanup of the last run of the effect is
\* called (if that run returned one).
Unmount ==
    /\ phase = "mounted"
    /\ phase' = "unmounted"
    /\ activeSubs' = IF cleanupFn THEN Cleanup(activeSubs, unsubscribeRef)
                     ELSE activeSubs
    /\ cleanupRan' = (cleanupRan \/ cleanupFn)
    /\ cleanupFn' = FALSE
    /\ UNCHANGED <<authLoading, authChanges, initialLoadDoneRef, lpc,
                   loadStarts, loadsRunning, unsubscribeRef, subsCreated,
                   localVars, storeVars, envVars, devices, otherVars, callbacks>>

\* Bookkeeping of one IndexedDB operation with outcome o.
StorageStep(o) ==
    /\ faults' = IF o = "request_failed" THEN faults + 1 ELSE faults
    /\ storageFailed' = (storageFailed \/ o # "ok")
    /\ dbInstance' = (dbInstance \/ o # "open_failed")

\* The catch block of loadDevices.
LoadCaught ==
    /\ devices' = SetDevices({})
    /\ lpc' = "failed"
    /\ loadsRunning' = loadsRunning - 1
    /\ UNCHANGED subVars

\* The end of either path of loadDevices: setDevices, then
\* subscribeToRealTimeUpdates.
LoadCompletes(value) ==
    LET s == SubscribeToRealTimeUpdates(activeSubs, unsubscribeRef, subsCreated)
    IN  /\ devices' = SetDevices(value)
        /\ activeSubs' = s.active
        /\ unsubscribeRef' = s.ref
        /\ subsCreated' = subsCreated + 1
        /\ lpc' = "done"
        /\ loadsRunning' = loadsRunning - 1

\* const cacheStale = await isCacheStale()
LoadCheckStale ==
    /\ lpc = "stale"
    /\ \E o \in StorageOutcomes(engineUp, faults) :
          /\ StorageStep(o)
          /\ IF o = "request_failed"
             THEN LoadCaught /\ UNCHANGED cacheStale
             ELSE /\ cacheStale' = IF o = "open_failed" THEN TRUE
                                   ELSE IsStale(idb, dateNow)
                  /\ lpc' = "read"
                  /\ UNCHANGED <<devices, loadsRunning, subVars>>
    /\ UNCHANGED <<lifeVars, initialLoadDoneRef, loadStarts, cachedDevices,
                   allDevices, validDevices, path, fetches, idb, envVars,
                   otherVars, callbacks>>

\* const cachedDevices = await getCachedDevices(), and the choice of path:
\* the cached set is published and the subscription attached, or the full
\* remote fetch is issued.
LoadReadCache ==
    /\ lpc = "read"
    /\ \E o \in StorageOutcomes(engineUp, faults) :
          /\ StorageStep(o)
          /\ IF o = "request_failed"
             THEN LoadCaught /\ UNCHANGED <<cachedDevices, path, fetches>>
             ELSE /\ cachedDevices' = IF o = "ok" THEN idb ELSE {}
                  /\ IF ~cacheStale /\ cachedDevices' # {}
                     THEN /\ path' = "FRESH_FROM_CACHE"
                          /\ LoadCompletes(cachedDevices')
                          /\ UNCHANGED fetches
                     ELSE /\ path' = "REBUILDING"
                          /\ lpc' = "fetch"
                          /\ fetches' = fetches + 1
                          /\ UNCHANGED <<devices, loadsRunning, subVars>>
    /\ UNCHANGED <<lifeVars, initialLoadDoneRef, loadStarts, cacheStale,
                   allDevices, validDevices, idb, envVars, otherVars, callbacks>>

\* const allDevices = await getAllDevices({limitCount: null}), the filter,
\* and the call of storeDevices(validDevices, true) up to its first await.
LoadFetch ==
    /\ lpc = "fetch"
    /\ \E fetched \in BOOLEAN :
          IF fetched
          THEN /\ allDevices' = remote
               /\ validDevices' = {d \in remote : HasValidCoordinates(d)}
               /\ lpc' = "store_clear"
               /\ UNCHANGED <<devices, loadsRunning, subVars>>
          ELSE LoadCaught /\ UNCHANGED <<allDevices, validDevices>>
    /\ UNCHANGED <<lifeVars, initialLoadDoneRef, loadStarts, cacheStale,
                   cachedDevices, path, fetches, storeVars, envVars, otherVars,
                   callbacks>>

\* storeDevices, full refresh: openDB and store.clear().  With no devices a
\* failure is logged and the metadata is written next; with devices a
\* failure makes storeDevices return false, which loadDevices ignores.
\* subscribeToRealTimeUpdates is called before storeDevices (the weakened
\* order).
StoreClearSubscribed ==
    /\ lpc = "store_clear"
    /\ \E o \in StorageOutcomes(engineUp, faults) :
          LET s == SubscribeToRealTimeUpdates(activeSubs, unsubscribeRef,
                                              subsCreated)
          IN  /\ StorageStep(o)
              /\ idb' = IF o = "ok" THEN {} ELSE idb
              /\ activeSubs' = s.active
              /\ unsubscribeRef' = s.ref
              /\ subsCreated' = subsCreated + 1
              /\ lpc' = IF validDevices = {} THEN "store_meta" ELSE "store_put"
              /\ UNCHANGED <<devices, loadsRunning>>
    /\ UNCHANGED <<lifeVars, initialLoadDoneRef, loadStarts, localVars,
                   envVars, otherVars, callbacks>>
StoreClear ==
    /\ lpc = "store_clear"
    /\ \E o \in StorageOutcomes(engineUp, faults) :
          /\ StorageStep(o)
          /\ idb' = IF o = "ok" THEN {} ELSE idb
          /\ IF validDevices = {}
             THEN /\ lpc' = "store_meta"
                  /\ UNCHANGED <<devices, loadsRunning, subVars>>
             ELSE IF o = "ok"
             THEN /\ lpc' = "store_put"
                  /\ UNCHANGED <<devices, loadsRunning, subVars>>
             ELSE LoadCompletes(validDevices)
    /\ UNCHANGED <<lifeVars, initialLoadDoneRef, loadStarts, localVars,
                   envVars, otherVars, callbacks>>

\* storeDevices: the batch of store.put(device) in one transaction (the
\* devices fit one batch of 2000).  A failed request aborts the transaction.
PutBatch(store, records) == IdbPutAll(store, records)

StorePut ==
    /\ lpc = "store_put"
    /\ \E o \in StorageOutcomes(engineUp, faults) :
          /\ StorageStep(o)
          /\ IF o = "ok"
             THEN /\ idb' = PutBatch(idb, validDevices)
                  /\ lpc' = "store_meta"
                  /\ UNCHANGED <<devices, loadsRunning, subVars>>
             ELSE /\ idb' = idb
                  /\ LoadCompletes(validDevices)
    /\ UNCHANGED <<lifeVars, initialLoadDoneRef, loadStarts, localVars,
                   envVars, otherVars, callbacks>>

\* storeDevices: await storeCacheMetadata({timestamp, deviceCount}), then the
\* rest of loadDevices.  storeCacheMetadata swallows a failed openDB; a
\* failed put rejects: storeDevices catches it when it has devices and
\* lets it escape to the catch block of loadDevices when it has none.
StoreMeta ==
    /\ lpc = "store_meta"
    /\ \E o \in StorageOutcomes(engineUp, faults) :
          /\ StorageStep(o)
          /\ idb' = IF o = "ok"
                    THEN IdbPut(idb, Metadata(dateNow, Cardinality(validDevices)))
                    ELSE idb
          /\ IF o = "request_failed" /\ validDevices = {}
             THEN LoadCaught
             ELSE LoadCompletes(validDevices)
    /\ UNCHANGED <<lifeVars, initialLoadDoneRef, loadStarts, localVars,
                   envVars, otherVars, callbacks>>

\* The documents of a snapshot in the order of the query (querySnapshot.docs).
SnapshotOrder == <<"e", "d", "c", "b", "a">>
SnapshotPosition(id) ==
    CHOOSE k \in 1..Len(SnapshotOrder) : SnapshotOrder[k] = id

\* orderBy('createdAt', 'desc'): a document written later comes first (a
\* document set by a batch has createdAt = updatedAt); SnapshotOrder is the
\* order of the documents written before the session.
SnapshotPrecedes(x, y) ==
    \/ x.updatedAt > y.updatedAt
    \/ /\ x.updatedAt = y.updatedAt
       /\ SnapshotPosition(x.id) < SnapshotPosition(y.id)

SnapshotDocs(store) ==
    [k \in 1..Cardinality(store) |->
        CHOOSE d \in store :
           Cardinality({x \in store : SnapshotPrecedes(x, d)}) = k - 1]

\* The position of the first device from position from on that passes the
\* coordinate check of the callback, or Len + 1.
NextValid(batch, from) ==
    LET valid == {k \in from..Len(batch) : HasValidCoordinates(batch[k])}
    IN  IF valid = {} THEN Len(batch) + 1
        ELSE CHOOSE k \in valid : \A j \in valid : k <= j

\* The callback given to subscribeToDevices, run up to its next await: the
\* upsertDevice of the device at position from or after it, or
\* getCachedDevices() after the last device.  during: the callbacks that
\* were still running when this one was called; ticket: the place of the
\* transaction of that operation among the transactions outstanding.
CallbackAt(batch, from, during, ticket) ==
    LET k == NextValid(batch, from)
    IN  [batch |-> batch, idx |-> k, during |-> during, ticket |-> ticket,
         pc |-> IF k <= Len(batch) THEN "upsert" ELSE "read"]

RunningCallbacks ==
    {c \in 1..Len(callbacks) : callbacks[c].pc \in {"upsert", "read"}}

\* db.transaction([STORE_NAME], ...): a transaction is created behind the
\* ones outstanding.
NextTicket(running) ==
    IF running = {} THEN 1
    ELSE 1 + (CHOOSE t \in {callbacks[c].ticket : c \in running} :
                 \A c \in running : callbacks[c].ticket <= t)

\* The transactions on the object store run in the order of their
\* creation: the request that completes next is the one of the callback
\* whose transaction was created first.
FirstInLine(c) ==
    /\ c \in RunningCallbacks
    /\ \A o \in RunningCallbacks : callbacks[c].ticket <= callbacks[o].ticket

\* onSnapshot fires for the live listener with the documents of the
\* collection: the callback starts.
SnapshotDelivered ==
    /\ activeSubs # {}
    /\ Len(callbacks) < MaxSnapshots
    /\ callbacks' = Append(callbacks,
          CallbackAt(SnapshotDocs(remote), 1, RunningCallbacks,
                     NextTicket(RunningCallbacks)))
    /\ UNCHANGED <<lifeVars, subVars, localVars, storeVars, envVars, devices,
                   initialLoadDoneRef, lpc, loadStarts, loadsRunning,
                   otherVars>>

\* await upsertDevice(device) of a callback: the record is put; a store
\* that cannot be opened makes upsertDevice return false and the loop goes
\* on; a failed put rejects and ends the callback in its catch block.
CallbackUpsert ==
    /\ \E c \in 1..Len(callbacks), o \in StorageOutcomes(engineUp, faults) :
          /\ callbacks[c].pc = "upsert"
          /\ FirstInLine(c)
          /\ StorageStep(o)
          /\ idb' = IF o = "ok"
                    THEN IdbPut(idb, callbacks[c].batch[callbacks[c].idx])
                    ELSE idb
          /\ callbacks' = [callbacks EXCEPT ![c] =
                IF o = "request_failed"
                THEN [@ EXCEPT !.pc = "caught", !.ticket = 0]
                ELSE CallbackAt(@.batch, @.idx + 1, @.during,
                                NextTicket(RunningCallbacks \ {c}))]
    /\ UNCHANGED <<lifeVars, subVars, localVars, envVars, devices,
                   initialLoadDoneRef, lpc, loadStarts, loadsRunning,
                   otherVars>>

\* const allCachedDevices = await getCachedDevices(); setDevices(...)
CallbackRead ==
    /\ \E c \in 1..Len(callbacks), o \in StorageOutcomes(engineUp, faults) :
          /\ callbacks[c].pc = "read"
          /\ FirstInLine(c)
          /\ StorageStep(o)
          /\ devices' = IF o = "ok" THEN SetDevices(idb)
                        ELSE IF o = "open_failed" THEN SetDevices({})
                        ELSE devices
          /\ callbacks' = [callbacks EXCEPT
                ![c].pc = IF o = "request_failed" THEN "caught" ELSE "done",
                ![c].ticket = 0]
    /\ UNCHANGED <<lifeVars, subVars, localVars, envVars, idb,
                   initialLoadDoneRef, lpc, loadStarts, loadsRunning,
                   otherVars>>

InitSync ==
    /\ remote \in SUBSET SyncDocs
    /\ serverTime = 1
    /\ nextAutoId = 0
    /\ BatchIdle /\ ImportIdle /\ QueryIdle /\ ExtIdle
    /\ phase = "init"
    /\ authLoading \in BOOLEAN
    /\ authChanges = 0
    /\ cleanupFn = FALSE
    /\ initialLoadDoneRef = FALSE
    /\ unsubscribeRef = 0
    /\ activeSubs = {}
    /\ subsCreated = 0
    /\ lpc = "none"
    /\ cacheStale = TRUE
    /\ cachedDevices = {}
    /\ allDevices = {}
    /\ validDevices = {}
    /\ devices = {}
    /\ path = "none"
    /\ fetches = 0
    /\ idb \in InitialCaches
    /\ dbInstance = FALSE
    /\ engineUp \in BOOLEAN
    /\ faults = 0
    /\ storageFailed = FALSE
    /\ dateNow \in {CachedAt + hours24, CachedAt + hours24 + 1}
    /\ loadStarts = 0
    /\ loadsRunning = 0
    /\ cleanupRan = FALSE
    /\ callbacks = <<>>

NextSync ==
    \/ Mount
    \/ AuthChange
    \/ Unmount
    \/ LoadCheckStale
    \/ LoadReadCache
    \/ LoadFetch
    \/ StoreClear
    \/ StorePut
    \/ StoreMeta
    \/ SnapshotDelivered
    \/ CallbackUpsert
    \/ CallbackRead

SpecSync == InitSync /\ [][NextSync]_vars

(***************************************************************************)
(* SpecVote: thumbsUpDevice and reportDeviceInactive.  A call reads the    *)
(* document (getDoc) and, in a later step, applies updateDoc with          *)
(* increment and arrayUnion / arrayRemove.                                 *)
(***************************************************************************)
VoteKinds == {"confirm", "inactive"}
VoteUsers == {"u1", "u2"}
VoteDeviceIds == {"d1", "d9", "osm_node_1"}

\* A stored document with the given voter sets and matching counters.
VoteDoc(id, ups, reports) ==
    [DeviceDoc(Dev(0), id, 0) EXCEPT !.thumbsUp = Cardinality(ups),
                                     !.thumbsUpUsers = ups,
                                     !.inactiveReports = Cardinality(reports),
                                     !.inactiveReportUsers = reports]

VoteRemotes == {{VoteDoc("d1", {}, {})}, {VoteDoc("d1", {"u1"}, {"u2"})}}

\* The counter and the voter array of one vote kind.
VoteCount(device, kind) ==
    IF kind = "confirm" THEN device.thumbsUp ELSE device.inactiveReports
VoteUserSet(device, kind) ==
    IF kind = "confirm" THEN device.thumbsUpUsers ELSE device.inactiveReportUsers

\* updateDoc(docRef, {counter: increment(+-1), users: arrayUnion/arrayRemove
\* (userId), updatedAt: serverTimestamp()}), applied to the stored document.
\* arrayRemove leaves the voter in the array (the weakened update).
UpdateVoteKeepsVoter(device, kind, userId, hasVoted, now) ==
    LET d == IF hasVoted THEN -1 ELSE 1
        users == VoteUserSet(device, kind) \cup {userId}
    IN  IF kind = "confirm"
        THEN [device EXCEPT !.thumbsUp = @ + d, !.thumbsUpUsers = users,
                            !.updatedAt = now]
        ELSE [device EXCEPT !.inactiveReports = @ + d,
                            !.inactiveReportUsers = users, !.updatedAt = now]
UpdateVote(device, kind, userId, hasVoted, now) ==
    LET d == IF hasVoted THEN -1 ELSE 1
        users == IF hasVoted THEN VoteUserSet(device, kind) \ {userId}
                 ELSE VoteUserSet(device, kind) \cup {userId}
    IN  IF kind = "confirm"
        THEN [device EXCEPT !.thumbsUp = @ + d, !.thumbsUpUsers = users,
                            !.updatedAt = now]
        ELSE [device EXCEPT !.inactiveReports = @ + d,
                            !.inactiveReportUsers = users, !.updatedAt = now]

NoVoteState == [count |-> 0, users |-> {}]
VoteState(device, kind) ==
    [count |-> VoteCount(device, kind), users |-> VoteUserSet(device, kind)]

\* const docSnap = await getDoc(docRef): the call throws 'Device not found'
\* or decides from the snapshot whether the user has voted, and issues
\* updateDoc.
VoteRead ==
    /\ Len(voteCalls) < MaxVoteCalls
    /\ \E kind \in VoteKinds, deviceId \in VoteDeviceIds, userId \in VoteUsers :
          LET found == {d \in remote : d.id = deviceId}
              call == [kind |-> kind, deviceId |-> deviceId, userId |-> userId,
                       pc |-> "failed", hasVoted |-> FALSE,
                       snapshotCount |-> 0, action |-> "none", newCount |-> 0,
                       readAt |-> voteClock + 1, doneAt |-> 0,
                       before |-> NoVoteState, after |-> NoVoteState]
          IN  IF found = {}
              THEN voteCalls' = Append(voteCalls, call)
              ELSE \E device \in found :
                      voteCalls' = Append(voteCalls,
                          [call EXCEPT
                             !.pc = "updating",
                             !.hasVoted = userId \in VoteUserSet(device, kind),
                             !.snapshotCount = VoteCount(device, kind),
                             !.before = VoteState(device, kind)])
    /\ voteClock' = voteClock + 1
    /\ UNCHANGED <<remoteVars, batchVars, importVars, queryVars, syncVars,
                   cacheVars, splitVars, retryVars, openVars,
                   storeCallVars>>

\* The update of call i is applied by the store; the call returns
\* {success, action, count} computed from its snapshot.
VoteUpdate ==
    /\ \E i \in 1..Len(voteCalls) :
          /\ voteCalls[i].pc = "updating"
          /\ \E device \in {d \in remote : d.id = voteCalls[i].deviceId} :
                LET c == voteCalls[i]
                    updated == UpdateVote(device, c.kind, c.userId, c.hasVoted,
                                          serverTime)
                IN  /\ remote' = (remote \ {device}) \cup {updated}
                    /\ voteCalls' = [voteCalls EXCEPT ![i] =
                          [c EXCEPT
                             !.pc = "done",
                             !.action = IF c.hasVoted THEN "removed" ELSE "added",
                             !.newCount = IF c.hasVoted THEN c.snapshotCount - 1
                                          ELSE c.snapshotCount + 1,
                             !.doneAt = voteClock + 1,
                             !.after = VoteState(updated, c.kind)]]
    /\ serverTime' = serverTime + 1
    /\ voteClock' = voteClock + 1
    /\ UNCHANGED <<nextAutoId, batchVars, importVars, queryVars, syncVars,
                   cacheVars, splitVars, retryVars, openVars,
                   storeCallVars>>

\* updateDoc of call i rejects (the store cannot be reached): the call
\* rethrows.
VoteUpdateFails ==
    /\ \E i \in 1..Len(voteCalls) :
          /\ voteCalls[i].pc = "updating"
          /\ voteCalls' = [voteCalls EXCEPT ![i].pc = "failed",
                                            ![i].doneAt = voteClock + 1]
    /\ voteClock' = voteClock + 1
    /\ UNCHANGED <<remoteVars, batchVars, importVars, queryVars, syncVars,
                   cacheVars, splitVars, retryVars, openVars,
                   storeCallVars>>

InitVote ==
    /\ remote \in VoteRemotes
    /\ serverTime = 1
    /\ nextAutoId = 0
    /\ BatchIdle /\ ImportIdle /\ QueryIdle /\ SyncIdle /\ ExtIdle
NextVote == VoteRead \/ VoteUpdate \/ VoteUpdateFails
SpecVote == InitVote /\ [][NextVote]_vars

(***************************************************************************)
(* SpecReimport: imports of the same elements one after the other, while   *)
(* users vote on the imported documents.                                   *)
(***************************************************************************)
ReimportInputs ==
    {<<Element("node", 1, Num(10), Num(20), NoCenter, 1)>>,
     <<Element("node", 1, Num(10), Num(20), NoCenter, 1),
       Element("way", 1, Undefined, Undefined, Center(11, 21), 1)>>}

StartReimport == StartImportOf(ReimportInputs, MaxRuns)

\* A vote call is started.
ReimportVoteRead ==
    /\ Len(voteCalls) < MaxReimportVotes
    /\ VoteRead

InitReimport == InitImport
NextReimport ==
    \/ StartReimport
    \/ ImportBatch
    \/ ReimportVoteRead
    \/ VoteUpdate
    \/ VoteUpdateFails
SpecReimport == InitReimport /\ [][NextReimport]_vars

(***************************************************************************)
(* SpecCache: the operations of utils/indexedDB.js called one after the    *)
(* other on the object store, each with the outcome of its requests.       *)
(***************************************************************************)
\* Records callers store: numeric coordinates on both sides of zero.
CacheDocs ==
    {SyncDoc("a", Num(1), Num(1)), SyncDoc("b", Num(2), Num(2)),
     SyncDoc("w", Num(-3), Num(4))}

\* Regions asked for: records on each of the four edges, a single point,
\* records left out by one bound only, an empty region and one holding all.
Bounds(s, n, w, e) == [south |-> s, north |-> n, west |-> w, east |-> e]
CacheBounds ==
    {Bounds(1, 2, 1, 2), Bounds(2, 2, 2, 2), Bounds(-3, 1, 1, 4),
     Bounds(-3, 4, 2, 4), Bounds(2, 4, -3, 4), Bounds(-3, 1, -3, 2),
     Bounds(2, 1, 1, 2), Bounds(-3, 4, -3, 4)}

\* Contents of the object store before the calls: nothing, metadata without
\* a timestamp, and a device with metadata written at CachedAt.
CacheStores ==
    {{}, {Metadata(0, 0)}, {SyncDoc("a", Num(1), Num(1)), Metadata(CachedAt, 1)}}

\* device.latitude and device.longitude of a stored record; the metadata
\* record has neither.
LatitudeOf(r) == IF r.id = CACHE_META_KEY THEN Undefined ELSE r.latitude
LongitudeOf(r) == IF r.id = CACHE_META_KEY THEN Undefined ELSE r.longitude

\* x >= n and x <= n of JavaScript: null converts to 0, and a comparison
\* with undefined, NaN or a non-numeric string is false.
JsIsNumeric(x) == x.k \in {"number", "null"}
JsGe(x, n) == JsIsNumeric(x) /\ x.v >= n
JsLe(x, n) == JsIsNumeric(x) /\ x.v <= n

\* The filter of getDevicesInBounds over store.getAll().
\* The north and east bounds are exclusive (the weakened filter).
InBoundsExclusive(device, bounds) ==
    /\ JsGe(LatitudeOf(device), bounds.south)
    /\ JsLe(LatitudeOf(device), bounds.north - 1)
    /\ JsGe(LongitudeOf(device), bounds.west)
    /\ JsLe(LongitudeOf(device), bounds.east - 1)
InBounds(device, bounds) ==
    /\ JsGe(LatitudeOf(device), bounds.south)
    /\ JsLe(LatitudeOf(device), bounds.north)
    /\ JsGe(LongitudeOf(device), bounds.west)
    /\ JsLe(LongitudeOf(device), bounds.east)

\* getCacheMetadata: the stored record without its id.
MetadataOf(store) ==
    {[timestamp |-> r.timestamp, deviceCount |-> r.deviceCount] :
        r \in MetaRecords(store)}

\* Where a call of storeDevices fails: nowhere, at openDB, or at one of its
\* requests (with no devices both the clear and the metadata write can
\* fail in one call, the first failure being swallowed).
StoreFailurePoints(devs, isFullRefresh, up, failedSoFar) ==
    IF ~up THEN {"open"}
    ELSE {"none"}
         \cup (IF failedSoFar < MaxFaults
               THEN {"meta"}
                    \cup (IF isFullRefresh THEN {"clear"} ELSE {})
                    \cup (IF devs # {} THEN {"put"} ELSE {})
                    \cup (IF devs # {} /\ ~isFullRefresh
                          THEN {"getall", "delete"} ELSE {})
               ELSE {})
         \cup (IF failedSoFar + 1 < MaxFaults /\ devs = {} /\ isFullRefresh
               THEN {"clear_meta"} ELSE {})

\* storeDevices(devices, isFullRefresh) as a whole: the object store it
\* leaves, what it returns and whether it raises.
StoreDevices(store, devs, isFullRefresh, failAt, now) ==
    LET cleared == IF isFullRefresh THEN {} ELSE store
        written == IdbPutAll(cleared, devs)
        kept == {r \in written : r.id = CACHE_META_KEY \/ r \in devs}
        meta == Metadata(now, Cardinality(devs))
    IN  IF devs = {}
        THEN CASE failAt = "none" ->
                    [store |-> IdbPut(cleared, meta), ret |-> "true",
                     raised |-> FALSE]
               [] failAt = "open" ->
                    [store |-> store, ret |-> "true", raised |-> FALSE]
               [] failAt = "clear" ->
                    [store |-> IdbPut(store, meta), ret |-> "true",
                     raised |-> FALSE]
               [] failAt = "meta" ->
                    [store |-> cleared, ret |-> "none", raised |-> TRUE]
               [] OTHER ->
                    [store |-> store, ret |-> "none", raised |-> TRUE]
        ELSE CASE failAt = "none" ->
                    [store |-> IdbPut(kept, meta), ret |-> "true",
                     raised |-> FALSE]
               [] failAt \in {"open", "clear"} ->
                    [store |-> store, ret |-> "false", raised |-> FALSE]
               [] failAt = "put" ->
                    [store |-> cleared, ret |-> "false", raised |-> FALSE]
               [] failAt \in {"getall", "delete"} ->
                    [store |-> written, ret |-> "false", raised |-> FALSE]
               [] OTHER ->
                    [store |-> kept, ret |-> "false", raised |-> FALSE]

\* Requests of a call of storeDevices that failed.
StoreFaults(failAt) ==
    IF failAt \in {"none", "open"} THEN 0
    ELSE IF failAt = "clear_meta" THEN 2 ELSE 1

\* The record of a call: what it was given, how its storage requests went,
\* and what it returned or whether it raised.
CacheCallRecord(op, o, store, ret, records, bounds) ==
    [op |-> op, outcome |-> o, raised |-> (o = "request_failed"),
     ret |-> IF o = "request_failed" THEN "none" ELSE ret,
     records |-> IF o = "ok" THEN records ELSE {},
     bounds |-> bounds, before |-> store]

\* The part of every call below: one more call, with the bookkeeping of
\* its storage outcome.
CacheCallStep(o) ==
    /\ cacheCalls < MaxCacheCalls
    /\ cacheCalls' = cacheCalls + 1
    /\ faults' = IF o = "request_failed" THEN faults + 1 ELSE faults
    /\ storageFailed' = (storageFailed \/ o # "ok")

cacheRest == <<phase, authLoading, authChanges, cleanupFn, initialLoadDoneRef,
               unsubscribeRef, activeSubs, subsCreated, lpc, cacheStale,
               cachedDevices, allDevices, validDevices, devices, path,
               fetches, engineUp, dateNow, loadStarts, loadsRunning, cleanupRan,
               callbacks,
               remoteVars, batchVars, importVars, queryVars, voteVars,
               splitVars, retryVars, openVars, storeCallVars>>

\* getAllDevices(): store.getAll()
CallGetAllDevices ==
    /\ \E o \in StorageOutcomes(engineUp, faults) :
          /\ CacheCallStep(o)
          /\ dbInstance' = (dbInstance \/ o # "open_failed")
          /\ cacheCall' = CacheCallRecord("getAllDevices", o, idb, "array",
                                          idb, NoBounds)
    /\ UNCHANGED <<idb, cacheRest>>

\* getDevicesInBounds(bounds)
CallGetDevicesInBounds ==
    /\ \E o \in StorageOutcomes(engineUp, faults), bounds \in CacheBounds :
          /\ CacheCallStep(o)
          /\ dbInstance' = (dbInstance \/ o # "open_failed")
          /\ cacheCall' = CacheCallRecord("getDevicesInBounds", o, idb, "array",
                                          {r \in idb : InBounds(r, bounds)},
                                          bounds)
    /\ UNCHANGED <<idb, cacheRest>>

\* upsertDevice(device): resolves with undefined, or returns false when the
\* store cannot be opened.
CallUpsertDevice ==
    /\ \E o \in StorageOutcomes(engineUp, faults), device \in CacheDocs :
          /\ CacheCallStep(o)
          /\ dbInstance' = (dbInstance \/ o # "open_failed")
          /\ idb' = IF o = "ok" THEN IdbPut(idb, device) ELSE idb
          /\ cacheCall' = CacheCallRecord("upsertDevice", o, idb,
                              IF o = "ok" THEN "undefined" ELSE "false",
                              {device}, NoBounds)
    /\ UNCHANGED cacheRest

\* getCacheMetadata(): the metadata or null.
CallGetCacheMetadata ==
    /\ \E o \in StorageOutcomes(engineUp, faults) :
          /\ CacheCallStep(o)
          /\ dbInstance' = (dbInstance \/ o # "open_failed")
          /\ cacheCall' = CacheCallRecord("getCacheMetadata", o, idb,
                              IF o = "ok" /\ MetaRecords(idb) # {}
                              THEN "metadata" ELSE "null",
                              MetadataOf(idb), NoBounds)
    /\ UNCHANGED <<idb, cacheRest>>

\* isCacheStale(): a rejection of getCacheMetadata passes through.
CallIsCacheStale ==
    /\ \E o \in StorageOutcomes(engineUp, faults) :
          /\ CacheCallStep(o)
          /\ dbInstance' = (dbInstance \/ o # "open_failed")
          /\ cacheCall' = CacheCallRecord("isCacheStale", o, idb,
                              IF o = "open_failed" \/ IsStale(idb, dateNow)
                              THEN "true" ELSE "false",
                              MetadataOf(idb), NoBounds)
    /\ UNCHANGED <<idb, cacheRest>>

\* clearCache(): store.clear(), and the connection is forgotten.
CallClearCache ==
    /\ \E o \in StorageOutcomes(engineUp, faults) :
          /\ CacheCallStep(o)
          /\ dbInstance' = IF o = "ok" THEN FALSE
                           ELSE (dbInstance \/ o # "open_failed")
          /\ idb' = IF o = "ok" THEN {} ELSE idb
          /\ cacheCall' = CacheCallRecord("clearCache", o, idb,
                              IF o = "ok" THEN "undefined" ELSE "false",
                              {}, NoBounds)
    /\ UNCHANGED cacheRest

\* storeDevices(devices, isFullRefresh)
CallStoreDevices ==
    /\ cacheCalls < MaxCacheCalls
    /\ \E devs \in SUBSET CacheDocs, isFullRefresh \in BOOLEAN :
       \E failAt \in StoreFailurePoints(devs, isFullRefresh, engineUp, faults) :
          LET r == StoreDevices(idb, devs, isFullRefresh, failAt, dateNow)
          IN  /\ idb' = r.store
              /\ faults' = faults + StoreFaults(failAt)
              /\ storageFailed' = (storageFailed \/ failAt # "none")
              /\ dbInstance' = (dbInstance \/ failAt # "open")
              /\ cacheCall' = [op |-> "storeDevices", outcome |-> failAt,
                               raised |-> r.raised, ret |-> r.ret,
                               records |-> devs, bounds |-> NoBounds,
                               before |-> idb]
    /\ cacheCalls' = cacheCalls + 1
    /\ UNCHANGED cacheRest

InitCache ==
    /\ remote = {}
    /\ serverTime = 1
    /\ nextAutoId = 0
    /\ BatchIdle /\ ImportIdle /\ QueryIdle /\ VoteIdle /\ CacheIdle
    /\ SplitIdle /\ RetryIdle /\ OpenIdle /\ StoreIdle
    /\ phase = "init"
    /\ authLoading = TRUE
    /\ authChanges = 0
    /\ cleanupFn = FALSE
    /\ initialLoadDoneRef = FALSE
    /\ unsubscribeRef = 0
    /\ activeSubs = {}
    /\ subsCreated = 0
    /\ lpc = "none"
    /\ cacheStale = TRUE
    /\ cachedDevices = {}
    /\ allDevices = {}
    /\ validDevices = {}
    /\ devices = {}
    /\ path = "none"
    /\ fetches = 0
    /\ idb \in CacheStores
    /\ dbInstance = FALSE
    /\ engineUp \in BOOLEAN
    /\ faults = 0
    /\ storageFailed = FALSE
    /\ dateNow \in {CachedAt + hours24 - 1, CachedAt + hours24,
                    CachedAt + hours24 + 1}
    /\ loadStarts = 0
    /\ loadsRunning = 0
    /\ cleanupRan = FALSE
    /\ callbacks = <<>>

NextCache ==
    \/ CallGetAllDevices
    \/ CallGetDevicesInBounds
    \/ CallUpsertDevice
    \/ CallGetCacheMetadata
    \/ CallIsCacheStale
    \/ CallClearCache
    \/ CallStoreDevices

SpecCache == InitCache /\ [][NextCache]_vars

(***************************************************************************)
(* SpecSplit: splitBoundingBox(bounds, chunksPerDimension).  Coordinates   *)
(* are JavaScript Numbers: binary floating point, every operation rounded  *)
(* to the nearest representable value, ties to the even significand.  The  *)
(* model keeps this arithmetic with a significand of SignificandBits bits  *)
(* (a Number has 53) and writes a value as a multiple of the smallest      *)
(* representable step.                                                     *)
(***************************************************************************)
SignificandBits == 4
MaxExponent == 6

RECURSIVE Pow2(_)
Pow2(k) == IF k = 0 THEN 1 ELSE 2 * Pow2(k - 1)

Abs(x) == IF x < 0 THEN -x ELSE x

\* The representable value nearest to a / b (b > 0).
Fl(a, b) ==
    LET mag == Abs(a)
        k == CHOOSE e \in 0..MaxExponent :
                /\ mag < Pow2(SignificandBits + e) * b
                /\ \A f \in 0..(e - 1) : mag >= Pow2(SignificandBits + f) * b
        quantum == Pow2(k) * b
        m == mag \div quantum
        rem == mag - m * quantum
        rounded == IF 2 * rem < quantum THEN m
                   ELSE IF 2 * rem > quantum THEN m + 1
                   ELSE IF m % 2 = 0 THEN m ELSE m + 1
    IN  (IF a < 0 THEN -1 ELSE 1) * rounded * Pow2(k)

Representable(x) == Fl(x, 1) = x

\* a + b, a - b, a * b and a / n of Numbers (n a small integer).
FAdd(a, b) == Fl(a + b, 1)
FSub(a, b) == Fl(a - b, 1)
FMul(a, b) == Fl(a * b, 1)
FDiv(a, n) == Fl(a, n)

splitBoundingBox(bounds, chunksPerDimension) ==
    LET latRange == FSub(bounds.north, bounds.south)
        lonRange == FSub(bounds.east, bounds.west)
        latChunkSize == FDiv(latRange, chunksPerDimension)
        lonChunkSize == FDiv(lonRange, chunksPerDimension)
    IN  [k \in 1..(chunksPerDimension * chunksPerDimension) |->
            LET i == (k - 1) \div chunksPerDimension
                j == (k - 1) % chunksPerDimension
            IN  [south |-> FAdd(bounds.south, FMul(i, latChunkSize)),
                 north |-> FAdd(bounds.south, FMul(i + 1, latChunkSize)),
                 west |-> FAdd(bounds.west, FMul(j, lonChunkSize)),
                 east |-> FAdd(bounds.west, FMul(j + 1, lonChunkSize)),
                 row |-> i, col |-> j]]

\* Regions given to splitBoundingBox: south <= north and west <= east.
SplitLatitudes == {x \in 0..20 : Representable(x)}
SplitLongitudes == {-7, 0, 3, 12}
SplitBounds ==
    {b \in [south : SplitLatitudes, north : SplitLatitudes,
            west : SplitLongitudes, east : SplitLongitudes] :
        b.south <= b.north /\ b.west <= b.east}

CallSplitBoundingBox ==
    /\ spc = "idle"
    /\ \E b \in SplitBounds, n \in 1..MaxSplit :
          /\ splitBounds' = b
          /\ splitGrid' = n
          /\ chunks' = splitBoundingBox(b, n)
    /\ spc' = "done"
    /\ UNCHANGED <<remoteVars, batchVars, importVars, queryVars, syncVars,
                   voteVars, cacheVars, retryVars, openVars,
                   storeCallVars>>

InitSplit ==
    /\ remote = {}
    /\ serverTime = 1
    /\ nextAutoId = 0
    /\ BatchIdle /\ ImportIdle /\ QueryIdle /\ SyncIdle /\ ExtIdle
NextSplit == CallSplitBoundingBox
SpecSplit == InitSplit /\ [][NextSplit]_vars

(***************************************************************************)
(* SpecRetry: queryOSMALPRs(bounds), one request per invocation, with the  *)
(* recursive retries after a backoff.                                      *)
(***************************************************************************)
maxRetries == 3

\* What one request can end in: a response with a status, a rejected fetch
\* (the message has the word 'fetch' or not), or a body that is not JSON.
Http(status) == [kind |-> "http", status |-> status]
RequestOutcomes ==
    {[kind |-> "ok", status |-> 200],
     Http(404), Http(429), Http(500), Http(503), Http(504),
     [kind |-> "network_fetch", status |-> 0],
     [kind |-> "network_other", status |-> 0],
     [kind |-> "json", status |-> 200]}

\* The bounding boxes asked for: none (worldwide) or a region.
QueryBoxes == {NoBounds, Bounds(1, 2, 1, 2)}

\* Math.min(5000 * Math.pow(2, retryCount), 30000)
\* The wait grows by 5 s per retry (the weakened backoff).
RateLimitWaitLinear(count) == Min(5000 * (count + 1), 30000)
RateLimitWait(count) == Min(5000 * Pow2(count), 30000)

\* Math.min(3000 * Math.pow(2, retryCount), 20000)
\* The wait grows by 3 s per retry (the weakened backoff).
ServerErrorWaitLinear(count) == Min(3000 * (count + 1), 20000)
ServerErrorWait(count) == Min(3000 * Pow2(count), 20000)

\* Math.min(2000 * Math.pow(2, retryCount), 10000)
NetworkWait(count) == Min(2000 * Pow2(count), 10000)

\* What the invocation with the given retryCount does with the outcome of
\* its request: return the elements, wait and call itself again, or raise.
\* Every response that is not ok is retried (the weakened handling).
HandleOutcomeRetriesAll(outcome, count) ==
    IF outcome.kind = "ok"
    THEN [next |-> "return", waitTime |-> 0, error |-> NoQueryError]
    ELSE IF count < maxRetries
    THEN [next |-> "wait", waitTime |-> NetworkWait(count),
          error |-> NoQueryError]
    ELSE [next |-> "raise", waitTime |-> 0,
          error |-> [kind |-> outcome.kind, status |-> outcome.status]]
HandleOutcome(outcome, count) ==
    CASE outcome.kind = "ok" ->
            [next |-> "return", waitTime |-> 0, error |-> NoQueryError]
      [] outcome.kind = "http" /\ outcome.status \in {429, 503} ->
            IF count < maxRetries
            THEN [next |-> "wait", waitTime |-> RateLimitWait(count),
                  error |-> NoQueryError]
            ELSE [next |-> "raise", waitTime |-> 0,
                  error |-> [kind |-> "rate_limit", status |-> 0]]
      [] outcome.kind = "http" /\ outcome.status \notin {429, 503}
           /\ (outcome.status = 504 \/ outcome.status >= 500) ->
            IF count < maxRetries
            THEN [next |-> "wait", waitTime |-> ServerErrorWait(count),
                  error |-> NoQueryError]
            ELSE [next |-> "raise", waitTime |-> 0,
                  error |-> [kind |-> "server", status |-> outcome.status]]
      [] outcome.kind = "http" /\ outcome.status < 500
           /\ outcome.status # 429 ->
            [next |-> "raise", waitTime |-> 0,
             error |-> [kind |-> "api", status |-> 0]]
      [] outcome.kind \in {"network_fetch", "json"} ->
            IF count < maxRetries
            THEN [next |-> "wait", waitTime |-> NetworkWait(count),
                  error |-> NoQueryError]
            ELSE [next |-> "raise", waitTime |-> 0,
                  error |-> [kind |-> outcome.kind, status |-> 0]]
      [] OTHER ->
            [next |-> "raise", waitTime |-> 0,
             error |-> [kind |-> outcome.kind, status |-> 0]]

retryRest == <<remoteVars, batchVars, importVars, queryVars, syncVars,
               voteVars, cacheVars, splitVars, openVars, storeCallVars>>

\* queryOSMALPRs(bounds) is called: the first request is issued.
StartQueryOSMALPRs ==
    /\ rpc = "idle"
    /\ \E box \in QueryBoxes : requestLog' = <<box>>
    /\ rpc' = "fetching"
    /\ UNCHANGED <<retryCount, responses, waits, queryError, retryRest>>

\* The request of the current invocation ends.
QueryResponse ==
    /\ rpc = "fetching"
    /\ \E outcome \in RequestOutcomes :
          LET h == HandleOutcome(outcome, retryCount)
          IN  /\ responses' = Append(responses, outcome)
              /\ rpc' = CASE h.next = "return" -> "returned"
                          [] h.next = "wait" -> "waiting"
                          [] OTHER -> "raised"
              /\ waits' = IF h.next = "wait" THEN Append(waits, h.waitTime)
                          ELSE waits
              /\ queryError' = h.error
    /\ UNCHANGED <<retryCount, requestLog, retryRest>>

\* The backoff timer fires:
\* return queryOSMALPRs(bounds, progressCallback, retryCount + 1, maxRetries)
RetryAfterWait ==
    /\ rpc = "waiting"
    /\ retryCount' = retryCount + 1
    /\ requestLog' = Append(requestLog, requestLog[Len(requestLog)])
    /\ rpc' = "fetching"
    /\ UNCHANGED <<responses, waits, queryError, retryRest>>

InitRetry ==
    /\ remote = {}
    /\ serverTime = 1
    /\ nextAutoId = 0
    /\ BatchIdle /\ ImportIdle /\ QueryIdle /\ SyncIdle /\ ExtIdle
NextRetry == StartQueryOSMALPRs \/ QueryResponse \/ RetryAfterWait
SpecRetry == InitRetry /\ [][NextRetry]_vars

\* Every request ends (the server answers or the browser gives up) and
\* every backoff timer fires.
SpecRetryFair ==
    /\ SpecRetry
    /\ WF_vars(QueryResponse)
    /\ WF_vars(RetryAfterWait)

(***************************************************************************)
(* SpecOpen: calls of openDB that may overlap, and clearCache, which       *)
(* resets dbInstance. A connection is the IDBDatabase object that one      *)
(* indexedDB.open request results in; connections are numbered in the      *)
(* order of their requests.                                                *)
(***************************************************************************)
OpenCallers == {"openDB", "clearCache"}

\* One call of openDB: who made it, where it stands ("pending" until its
\* request succeeds or fails), the connection it asked for or was given,
\* whether it issued an indexedDB.open request, and the calls that had not
\* resolved yet when it started.  For a clearCache whose store.clear() has
\* succeeded, callsAtClear is the number of calls made up to then.
OpenCall(caller, state, handle, opened, pending) ==
    [caller |-> caller, state |-> state, handle |-> handle,
     opened |-> opened, pendingAtStart |-> pending, callsAtClear |-> 0]

PendingCalls == {i \in 1..Len(openCalls) : openCalls[i].state = "pending"}

openRest == <<phase, authLoading, authChanges, cleanupFn, initialLoadDoneRef,
              unsubscribeRef, activeSubs, subsCreated, lpc, cacheStale,
              cachedDevices, allDevices, validDevices, devices, path,
              fetches, dbInstance, engineUp, faults, storageFailed, dateNow,
              loadStarts, loadsRunning, cleanupRan, callbacks,
              remoteVars, batchVars, importVars, queryVars,
              voteVars, cacheVars, splitVars, retryVars, storeCallVars>>

\* openDB(): the executor of the promise runs at once. With dbInstance set
\* the promise resolves with it; otherwise a request indexedDB.open is
\* issued and the promise stays pending.
CallOpenDB ==
    /\ Len(openCalls) < MaxOpenCalls
    /\ \E caller \in OpenCallers :
          IF dbHandle # 0
          THEN /\ openCalls' = Append(openCalls,
                     OpenCall(caller, "resolved", dbHandle, FALSE, PendingCalls))
               /\ UNCHANGED connections
          ELSE /\ openCalls' = Append(openCalls,
                     OpenCall(caller, "pending", connections + 1, TRUE,
                              PendingCalls))
               /\ connections' = connections + 1
    /\ UNCHANGED <<dbHandle, idb, openRest>>

\* request.onsuccess: dbInstance = request.result; resolve(dbInstance)
OpenSuccess ==
    /\ \E i \in PendingCalls :
          /\ dbHandle' = openCalls[i].handle
          /\ openCalls' = [openCalls EXCEPT ![i].state = "resolved"]
    /\ UNCHANGED <<connections, idb, openRest>>

\* request.onerror: reject(request.error)
OpenError ==
    /\ \E i \in PendingCalls :
          openCalls' = [openCalls EXCEPT ![i].state = "rejected",
                                         ![i].handle = 0]
    /\ UNCHANGED <<dbHandle, connections, idb, openRest>>

\* clearCache, after its openDB has resolved: store.clear() succeeds, the
\* object store is empty and dbInstance = null.
ClearSuccess ==
    /\ \E i \in 1..Len(openCalls) :
          /\ openCalls[i].caller = "clearCache"
          /\ openCalls[i].state = "resolved"
          /\ openCalls' = [openCalls EXCEPT ![i].state = "cleared",
                                            ![i].callsAtClear = Len(openCalls)]
    /\ idb' = ClearedStore(idb)
    /\ dbHandle' = 0
    /\ UNCHANGED <<connections, openRest>>

InitOpen ==
    /\ remote = {}
    /\ serverTime = 1
    /\ nextAutoId = 0
    /\ BatchIdle /\ ImportIdle /\ QueryIdle /\ ExtIdle
    /\ phase = "init"
    /\ authLoading = TRUE
    /\ authChanges = 0
    /\ cleanupFn = FALSE
    /\ initialLoadDoneRef = FALSE
    /\ unsubscribeRef = 0
    /\ activeSubs = {}
    /\ subsCreated = 0
    /\ lpc = "none"
    /\ cacheStale = TRUE
    /\ cachedDevices = {}
    /\ allDevices = {}
    /\ validDevices = {}
    /\ devices = {}
    /\ path = "none"
    /\ fetches = 0
    /\ idb \in InitialCaches
    /\ dbInstance = FALSE
    /\ engineUp = TRUE
    /\ faults = 0
    /\ storageFailed = FALSE
    /\ dateNow \in {CachedAt + hours24 - 1, CachedAt + hours24 + 1}
    /\ loadStarts = 0
    /\ loadsRunning = 0
    /\ cleanupRan = FALSE
    /\ callbacks = <<>>
NextOpen == CallOpenDB \/ OpenSuccess \/ OpenError \/ ClearSuccess
SpecOpen == InitOpen /\ [][NextOpen]_vars

(***************************************************************************)
(* SpecStream: the Map component after a bootstrap, with the subscription  *)
(* attached, while other clients update and delete documents of the remote *)
(* store.  The listener fires with the documents of the collection when it *)
(* is attached and after every change of the collection.                   *)
(***************************************************************************)
\* The coordinate a re-import gives to a record.
StreamCoordinates == {7}

\* batchAddDevices([deviceData], [deviceId]): the document is set again
\* (merge: false), its timestamps are the time of the write.
SetDevice(store, deviceId, c, now) ==
    BatchCommit(store, <<Dev(c)>>, Ids(<<deviceId>>), now, 0)

\* deleteDoc(docRef)
DeleteDevice(store, deviceId) == {d \in store : d.id # deviceId}

\* The collection after one write of another client.
RemoteWrites(store, now) ==
    {SetDevice(store, d.id, c, now) : d \in store, c \in StreamCoordinates}
       \cup {DeleteDevice(store, d.id) : d \in store}

\* The collection when the component was mounted.
StreamRemotes == SUBSET {SyncDoc("a", Num(1), Num(1)), SyncDoc("b", Num(2), Num(2))}

\* The first snapshot of the listener: the documents as they are.
StreamFirstSnapshot ==
    /\ activeSubs # {}
    /\ callbacks = <<>>
    /\ callbacks' = Append(callbacks, CallbackAt(SnapshotDocs(remote), 1, {}, 1))
    /\ UNCHANGED <<lifeVars, subVars, localVars, storeVars, envVars, devices,
                   initialLoadDoneRef, lpc, loadStarts, loadsRunning,
                   otherVars>>

\* Another client writes to the collection and the listener fires with the
\* documents after the write.
StreamChange ==
    /\ activeSubs # {}
    /\ callbacks # <<>>
    /\ Len(callbacks) < MaxStreamSnapshots
    /\ \E after \in RemoteWrites(remote, serverTime) :
          /\ remote' = after
          /\ callbacks' = Append(callbacks,
                CallbackAt(SnapshotDocs(after), 1, RunningCallbacks,
                           NextTicket(RunningCallbacks)))
    /\ serverTime' = serverTime + 1
    /\ UNCHANGED <<nextAutoId, batchVars, importVars, queryVars,
                   extVars, lifeVars, subVars, localVars, storeVars, envVars,
                   devices, initialLoadDoneRef, lpc, loadStarts, loadsRunning>>

\* The state loadDevices leaves on the REBUILDING path when nothing failed.
InitStream ==
    /\ remote \in StreamRemotes
    /\ serverTime = 1
    /\ nextAutoId = 0
    /\ BatchIdle /\ ImportIdle /\ QueryIdle /\ ExtIdle
    /\ phase = "mounted"
    /\ authLoading = FALSE
    /\ authChanges = 0
    /\ cleanupFn = TRUE
    /\ initialLoadDoneRef = TRUE
    /\ unsubscribeRef = 1
    /\ activeSubs = {1}
    /\ subsCreated = 1
    /\ lpc = "done"
    /\ cacheStale = TRUE
    /\ cachedDevices = {}
    /\ allDevices = remote
    /\ validDevices = remote
    /\ devices = remote
    /\ path = "REBUILDING"
    /\ fetches = 1
    /\ idb = remote \cup {Metadata(CachedAt + hours24 + 1, Cardinality(remote))}
    /\ dbInstance = TRUE
    /\ engineUp = TRUE
    /\ faults = 0
    /\ storageFailed = FALSE
    /\ dateNow = CachedAt + hours24 + 1
    /\ loadStarts = 1
    /\ loadsRunning = 0
    /\ cleanupRan = FALSE
    /\ callbacks = <<>>

NextStream ==
    \/ StreamFirstSnapshot
    \/ StreamChange
    \/ CallbackUpsert
    \/ CallbackRead

SpecStream == InitStream /\ [][NextStream]_vars

(***************************************************************************)
(* SpecStore: one call of storeDevices(devices, isFullRefresh), await by   *)
(* await, with inputs of up to three write batches.                        *)
(***************************************************************************)
STORE_BATCH_SIZE == 2000
DELETE_BATCH_SIZE == 2000

\* Device k of a large input.
BigDevice(k) == [SyncDoc(ToString(k), Num(k), Num(k)) EXCEPT !.osmId = k]
BigDevices(n) == [k \in 1..n |-> BigDevice(k)]

StoreLargeSizes == {2000, 2001, 4001}

\* The arrays given: none, one or two devices, one device twice in two
\* versions, and arrays that fill one batch, two batches and three batches.
StoreInputs ==
    {<<>>,
     <<SyncDoc("a", Num(1), Num(1))>>,
     <<SyncDoc("a", Num(1), Num(1)), SyncDoc("b", Num(2), Num(2))>>,
     <<SyncDoc("b", Num(2), Num(2)), SyncDoc("w", Num(-3), Num(4))>>,
     <<SyncDoc("a", Num(9), Num(9)), SyncDoc("a", Num(1), Num(1))>>}
    \cup {BigDevices(n) : n \in StoreLargeSizes}

\* Contents of the object store before the call.
StoreStores == CacheStores \cup InitialCaches

\* Math.ceil(length / size)
TotalBatches(length, size) == (length + size - 1) \div size

\* devices.slice(start, end) of batch batchIndex
StoreSlice(array, batchIndex, size) ==
    SubSeq(array, batchIndex * size + 1,
           Min(batchIndex * size + size, Len(array)))

\* batch.forEach(device => store.put(device)) in one transaction: of two
\* devices with one id the later one stays.
LastPuts(batch) ==
    {batch[k] : k \in {i \in 1..Len(batch) :
                         \A j \in (i + 1)..Len(batch) : batch[j].id # batch[i].id}}

\* existingDevices.filter(d => d.id !== CACHE_META_KEY && !newDeviceIds.has(d.id))
\* Without the test of CACHE_META_KEY (the weakened filter).
DevicesToRemoveAnyKey(existingDevices, given) ==
    LET newDeviceIds == {given[k].id : k \in 1..Len(given)}
    IN  {d \in existingDevices : d.id \notin newDeviceIds}
DevicesToRemove(existingDevices, given) ==
    LET newDeviceIds == {given[k].id : k \in 1..Len(given)}
    IN  {d \in existingDevices :
            d.id # CACHE_META_KEY /\ d.id \notin newDeviceIds}

\* The place of a record in the array store.getAll() returned (the order
\* of the keys, for which osmId stands in).
KeyRank(d, records) ==
    Cardinality({x \in records : x.id # CACHE_META_KEY /\ x.osmId < d.osmId})

\* devicesToRemove.slice(start, end) of delete batch i
DeleteSlice(records, i) ==
    {d \in records :
        /\ KeyRank(d, records) >= i * DELETE_BATCH_SIZE
        /\ KeyRank(d, records) < i * DELETE_BATCH_SIZE + DELETE_BATCH_SIZE}

\* deleteBatch.forEach(device => store.delete(device.id))
IdbDeleteAll(store, records) ==
    {r \in store : \A d \in records : d.id # r.id}

storeRest == <<phase, authLoading, authChanges, cleanupFn, initialLoadDoneRef,
               unsubscribeRef, activeSubs, subsCreated, lpc, cacheStale,
               cachedDevices, allDevices, validDevices, devices, path,
               fetches, engineUp, dateNow, loadStarts, loadsRunning, cleanupRan,
               callbacks,
               remoteVars, batchVars, importVars, queryVars, voteVars,
               cacheVars, splitVars, retryVars, openVars>>

\* The call ends: what it returns ("raised" for a rejection that reaches
\* the caller).
StoreReturns(ret, o) ==
    storeCall' = [storeCall EXCEPT !.pc = "returned", !.ret = ret,
                                   !.failed = (@ \/ o # "ok")]

\* The call goes on at position pc.
StoreGoesOn(pc, index, o) ==
    storeCall' = [storeCall EXCEPT !.pc = pc, !.batchIndex = index,
                                   !.failed = (@ \/ o # "ok")]

\* storeDevices(devices, isFullRefresh) is called and runs up to its first
\* await.
StoreCalled ==
    /\ storeCall.pc = "idle"
    /\ \E devs \in StoreInputs, full \in BOOLEAN :
          storeCall' = [NoStoreCall EXCEPT
                          !.devices = devs, !.isFullRefresh = full,
                          !.before = idb,
                          !.pc = IF full THEN "clear"
                                 ELSE IF Len(devs) = 0 THEN "meta"
                                 ELSE "put"]
    /\ UNCHANGED <<storeVars, storeRest>>

\* openDB and store.clear().  With no devices a failure is caught and
\* logged, and the metadata is written next; with devices a failure makes
\* storeDevices return false.
StoreCleared ==
    /\ storeCall.pc = "clear"
    /\ \E o \in StorageOutcomes(engineUp, faults) :
          /\ StorageStep(o)
          /\ idb' = IF o = "ok" THEN ClearedStore(idb) ELSE idb
          /\ IF Len(storeCall.devices) = 0 THEN StoreGoesOn("meta", 0, o)
             ELSE IF o = "ok" THEN StoreGoesOn("put", 0, o)
             ELSE StoreReturns("false", o)
    /\ UNCHANGED storeRest

\* One turn of the batch loop: the puts of a batch in one transaction.  A
\* failed request aborts the transaction and storeDevices returns false.
StoreBatchPut ==
    /\ storeCall.pc = "put"
    /\ \E o \in StorageOutcomes(engineUp, faults) :
          LET batch == StoreSlice(storeCall.devices, storeCall.batchIndex,
                                  STORE_BATCH_SIZE)
              totalBatches == TotalBatches(Len(storeCall.devices),
                                           STORE_BATCH_SIZE)
          IN  /\ StorageStep(o)
              /\ idb' = IF o = "ok" THEN IdbPutAll(idb, LastPuts(batch)) ELSE idb
              /\ IF o # "ok" THEN StoreReturns("false", o)
                 ELSE IF storeCall.batchIndex + 1 < totalBatches
                 THEN StoreGoesOn("put", storeCall.batchIndex + 1, o)
                 ELSE IF ~storeCall.isFullRefresh
                 THEN StoreGoesOn("getall", 0, o)
                 ELSE StoreGoesOn("meta", 0, o)
    /\ UNCHANGED storeRest

\* const existingDevices = await getAllDevices() and the choice of the
\* records to remove.  getAllDevices returns [] when the store cannot be
\* opened; a failed request rejects and storeDevices returns false.
StoreReconciles ==
    /\ storeCall.pc = "getall"
    /\ \E o \in StorageOutcomes(engineUp, faults) :
          LET existingDevices == IF o = "ok" THEN idb ELSE {}
              devicesToRemove == DevicesToRemove(existingDevices,
                                                 storeCall.devices)
          IN  /\ StorageStep(o)
              /\ IF o = "request_failed" THEN StoreReturns("false", o)
                 ELSE storeCall' = [storeCall EXCEPT
                         !.devicesToRemove = devicesToRemove,
                         !.batchIndex = 0,
                         !.failed = (@ \/ o # "ok"),
                         !.pc = IF devicesToRemove = {} THEN "meta"
                                ELSE "delete"]
    /\ UNCHANGED <<idb, storeRest>>

\* One turn of the delete loop: the deletes of a batch in one transaction.
StoreBatchDelete ==
    /\ storeCall.pc = "delete"
    /\ \E o \in StorageOutcomes(engineUp, faults) :
          LET deleteBatch == DeleteSlice(storeCall.devicesToRemove,
                                         storeCall.batchIndex)
              deleteBatches == TotalBatches(
                                  Cardinality(storeCall.devicesToRemove),
                                  DELETE_BATCH_SIZE)
          IN  /\ StorageStep(o)
              /\ idb' = IF o = "ok" THEN IdbDeleteAll(idb, deleteBatch) ELSE idb
              /\ IF o # "ok" THEN StoreReturns("false", o)
                 ELSE IF storeCall.batchIndex + 1 < deleteBatches
                 THEN StoreGoesOn("delete", storeCall.batchIndex + 1, o)
                 ELSE StoreGoesOn("meta", 0, o)
    /\ UNCHANGED storeRest

\* await storeCacheMetadata({timestamp: Date.now(), deviceCount}) and the
\* return.  storeCacheMetadata swallows a failed openDB; a failed put
\* rejects: with devices the catch block returns false, with none the
\* rejection reaches the caller.
StoreMetadataWritten ==
    /\ storeCall.pc = "meta"
    /\ \E o \in StorageOutcomes(engineUp, faults) :
          /\ StorageStep(o)
          /\ idb' = IF o = "ok"
                    THEN IdbPut(idb, Metadata(dateNow, Len(storeCall.devices)))
                    ELSE idb
          /\ StoreReturns(IF o # "request_failed" THEN "true"
                          ELSE IF Len(storeCall.devices) = 0 THEN "raised"
                          ELSE "false", o)
    /\ UNCHANGED storeRest

InitStore ==
    /\ remote = {}
    /\ serverTime = 1
    /\ nextAutoId = 0
    /\ BatchIdle /\ ImportIdle /\ QueryIdle /\ ExtIdle
    /\ phase = "init"
    /\ authLoading = TRUE
    /\ authChanges = 0
    /\ cleanupFn = FALSE
    /\ initialLoadDoneRef = FALSE
    /\ unsubscribeRef = 0
    /\ activeSubs = {}
    /\ subsCreated = 0
    /\ lpc = "none"
    /\ cacheStale = TRUE
    /\ cachedDevices = {}
    /\ allDevices = {}
    /\ validDevices = {}
    /\ devices = {}
    /\ path = "none"
    /\ fetches = 0
    /\ idb \in StoreStores
    /\ dbInstance = FALSE
    /\ engineUp \in BOOLEAN
    /\ faults = 0
    /\ storageFailed = FALSE
    /\ dateNow = CachedAt + hours24 + 1
    /\ loadStarts = 0
    /\ loadsRunning = 0
    /\ cleanupRan = FALSE
    /\ callbacks = <<>>

NextStore ==
    \/ StoreCalled
    \/ StoreCleared
    \/ StoreBatchPut
    \/ StoreReconciles
    \/ StoreBatchDelete
    \/ StoreMetadataWritten

SpecStore == InitStore /\ [][NextStore]_vars

(***************************************************************************)
(* Properties of the bulk import.                                          *)
(***************************************************************************)
Convertible(e) == ~convertOSMToPeekBack(e).isNull
DocsWithId(store, id) == {d \in store : d.id = id}
OsmId(e) == "osm_" \o e.type \o "_" \o ToString(e.id)

\* Two imports in a row, every batch of both written.
ReimportDone ==
    /\ ipc = "done"
    /\ prevRun.n > 0
    /\ prevRun.results.errors = 0
    /\ results.errors = 0

\* C1: a record that two successive imports both carry has, after the
\* second import, exactly one document in the remote store, the one named
\* osm_<type>_<id>; that document existed after the first import and was
\* rewritten by the second, and a second import of nothing but records of
\* the first leaves the number of documents as it was.
C1_IdempotentReimport ==
    ReimportDone =>
        /\ \A e \in Range(osmElements) \cap Range(prevRun.elems) :
              Convertible(e) =>
                /\ Cardinality(DocsWithId(remote, OsmId(e))) = 1
                /\ Cardinality(DocsWithId(prevRun.remote, OsmId(e))) = 1
                /\ \A d \in DocsWithId(remote, OsmId(e)) :
                   \A o \in DocsWithId(prevRun.remote, OsmId(e)) :
                      d.osmId = e.id /\ d.updatedAt > o.updatedAt
        /\ Range(osmElements) \subseteq Range(prevRun.elems) =>
              Cardinality(remote) = Cardinality(prevRun.remote)

C1_Witness ==
    /\ ReimportDone
    /\ osmElements = prevRun.elems
    /\ \E e \in Range(osmElements) : Convertible(e)

\* ceil(n / BATCH_SIZE)
CeilBatches(n) == (n + BATCH_SIZE - 1) \div BATCH_SIZE

FailedCalls == SelectSeq([c \in 1..Len(writeCalls) |->
                            [batch |-> c, count |-> Len(writeCalls[c].devices),
                             outcome |-> writeCalls[c].outcome]],
                         LAMBDA r : Raised(r.outcome))

\* C8: when importOSMData returns, the N converted records (the convertible
\* elements, in input order) have been passed to batchAddDevices in
\* ceil(N/500) calls: call c carries records (c-1)*500+1 .. min(c*500, N)
\* and, at the same positions, their document identifiers; errorsList has
\* one entry, with the batch number and the record count, for each call
\* that threw, and calls after a failed one were still made.
C8_BatchedWrites ==
    ipc = "done" =>
        LET N == Len(devicesToImport)
            kept == SelectSeq(osmElements, Convertible)
        IN  /\ N = Len(kept)
            /\ Len(documentIds) = N
            /\ \A k \in 1..N :
                  /\ documentIds[k] = OsmId(kept[k])
                  /\ devicesToImport[k].osmId = kept[k].id
            /\ Len(writeCalls) = CeilBatches(N)
            /\ \A c \in 1..Len(writeCalls) :
                  LET from == (c - 1) * BATCH_SIZE
                      size == Min(BATCH_SIZE, N - from)
                  IN  /\ Len(writeCalls[c].devices) = size
                      /\ Len(writeCalls[c].ids) = size
                      /\ size <= 500
                      /\ \A j \in 1..size :
                            /\ writeCalls[c].devices[j] = devicesToImport[from + j]
                            /\ writeCalls[c].ids[j] = documentIds[from + j]
            /\ Len(results.errorsList) = Len(FailedCalls)
            /\ \A f \in 1..Len(FailedCalls) :
                  /\ results.errorsList[f].batch = FailedCalls[f].batch
                  /\ results.errorsList[f].count = FailedCalls[f].count

\* An import of several batches in which a batch other than the last threw.
C8_Witness ==
    /\ ipc = "done"
    /\ Len(writeCalls) = 3
    /\ Raised(writeCalls[1].outcome)
    /\ writeCalls[2].outcome = "ok"
    /\ Len(writeCalls[3].devices) < BATCH_SIZE

\* 1200 convertible records, and of the three writes only the second threw.
ScenarioC ==
    /\ ipc = "done"
    /\ Len(devicesToImport) = 1200
    /\ Len(writeCalls) = 3
    /\ writeCalls[1].outcome = "ok"
    /\ Raised(writeCalls[2].outcome)
    /\ writeCalls[3].outcome = "ok"

ScenarioCWrites ==
    /\ Len(writeCalls[1].devices) = 500
    /\ Len(writeCalls[2].devices) = 500
    /\ Len(writeCalls[3].devices) = 200
    /\ results.errorsList = <<[batch |-> 2, count |-> 500]>>

\* C9 as stated: imported = 700 and errors = 200.
C9_ScenarioC_AsStated ==
    ScenarioC =>
        /\ ScenarioCWrites
        /\ results.imported = 700
        /\ results.errors = 200

\* C9 amended: an import of 1200 convertible records in which only the
\* write of batch 2 throws issues three writes of 500, 500 and 200 records
\* and returns imported = 700, errors = 500 (the records of the failed
\* batch) and errorsList = [{batch: 2, count: 500}].
C9_ScenarioC ==
    ScenarioC =>
        /\ ScenarioCWrites
        /\ results.total = Len(osmElements)
        /\ results.imported = 700
        /\ results.errors = 500

C9_Witness == ScenarioC /\ results.skipped = 0

(***************************************************************************)
(* Properties of the batched query.                                        *)
(***************************************************************************)
FailedLog == SelectSeq(chunkLog, LAMBDA r : ~r.ok)

\* C6: when queryOSMALPRsBatched returns, every chunk has been queried once,
\* in index order; every record (an element type and id) that a chunk whose
\* query succeeded returned is in the merged result; and failedChunks has
\* one entry {chunk: 1-based index, error} for each chunk that failed, and
\* no other.
C6_PartialFailureContainment ==
    qpc = "done" =>
        /\ Len(chunkLog) = totalChunks
        /\ \A k \in 1..Len(chunkLog) : chunkLog[k].chunk = k
        /\ \A k \in 1..Len(chunkLog) :
              chunkLog[k].ok =>
                \A e \in Range(chunkLog[k].elements) :
                   \E u \in Range(uniqueElements) :
                      u.type = e.type /\ u.id = e.id
        /\ Len(failedChunks) = Len(FailedLog)
        /\ \A f \in 1..Len(FailedLog) :
              failedChunks[f] = [chunk |-> FailedLog[f].chunk,
                                 error |-> FailedLog[f].error]

\* C7: the returned array has no two elements with the same id, and for
\* every id among the elements the chunks returned it holds exactly one
\* element, the last one returned with that id.
C7_DedupById ==
    qpc = "done" =>
        /\ \A i, j \in 1..Len(uniqueElements) :
              uniqueElements[i].id = uniqueElements[j].id => i = j
        /\ \A k \in 1..Len(allElements) :
              /\ Cardinality({i \in 1..Len(uniqueElements) :
                                uniqueElements[i].id = allElements[k].id}) = 1
              /\ (\A j \in (k + 1)..Len(allElements) :
                     allElements[j].id # allElements[k].id)
                 => allElements[k] \in Range(uniqueElements)
        /\ Range(uniqueElements) \subseteq Range(allElements)

\* Two chunks returned the same node, the later one in a newer version.
C7_Witness ==
    /\ qpc = "done"
    /\ \E a, b \in 1..Len(chunkLog) :
          /\ a < b
          /\ \E x \in Range(chunkLog[a].elements) :
             \E y \in Range(chunkLog[b].elements) :
                x.id = y.id /\ x.type = y.type /\ x.ver < y.ver
                /\ y \in Range(uniqueElements)
                /\ x \notin Range(uniqueElements)

(***************************************************************************)
(* Properties of batchAddDevices.                                          *)
(***************************************************************************)
\* The last direct call broke the caller's contract: more than 500 records,
\* or an identifier array of another length than the record array.
ContractViolated ==
    /\ lastCall.outcome # "none"
    /\ \/ lastCall.n > 500
       \/ lastCall.idsGiven /\ lastCall.idsLen # lastCall.n

\* C10: a call of batchAddDevices with more than 500 records, or with an
\* identifier array whose length differs from the record array, raises an
\* error and leaves the remote store as it was.
C10_ContractViolationRaises ==
    ContractViolated =>
        /\ lastCall.outcome \in {"throw_size", "throw_ids"}
        /\ remote = lastCall.before

(***************************************************************************)
(* Properties of the Map component's bootstrap and subscription.           *)
(***************************************************************************)
\* A record whose latitude and longitude are both numbers.
NumericCoordinates(d) == d.latitude.k = "number" /\ d.longitude.k = "number"

\* C2: whenever loadDevices completes on the REBUILDING path and no
\* IndexedDB operation of the bootstrap has failed, the device records of
\* the local cache are exactly the remote records whose coordinates are
\* both numbers, and the metadata record exists with deviceCount equal to
\* their number.  This holds for every cache the bootstrap starts from, the
\* empty one and a remote store with null coordinates included.
C2_BootstrapFiltersAndCounts ==
    [][(lpc # "done" /\ lpc' = "done" /\ path' = "REBUILDING" /\ ~storageFailed')
        => LET valid == {d \in remote : NumericCoordinates(d)}
           IN  /\ DeviceRecords(idb') = valid
               /\ MetaRecords(idb') # {}
               /\ \A meta \in MetaRecords(idb') :
                      meta.deviceCount = Cardinality(valid)]_vars

\* The bootstrap has completed without a storage failure from an empty cache
\* over a remote store with valid records and records with a null coordinate.
C2_Witness ==
    /\ lpc = "done" /\ path = "REBUILDING" /\ ~storageFailed
    /\ cachedDevices = {}
    /\ \E d \in allDevices : NumericCoordinates(d)
    /\ \E d \in allDevices : d.latitude = Null
    /\ \E d \in allDevices : d.longitude = Null
    /\ Cardinality(DeviceRecords(idb)) = 2
    /\ Metadata(dateNow, 2) \in idb

\* C3: loadDevices is started at most once, and at most one call of it is
\* running, whatever the changes of authLoading.
C3_BootstrapAtMostOnce == loadStarts <= 1 /\ loadsRunning <= 1

\* authLoading has become false again while the bootstrap it started is
\* still fetching: the effect ran again and did not start a second one.
C3_Witness ==
    /\ phase = "mounted" /\ authChanges >= 2 /\ ~authLoading
    /\ lpc = "fetch" /\ loadStarts = 1 /\ loadsRunning = 1

\* C4: at most one live subscription is active, and it is the one whose
\* cancel function unsubscribeRef holds (the one the next call of
\* subscribeToRealTimeUpdates or the cleanup cancels).
C4_AtMostOneSubscription ==
    /\ Cardinality(activeSubs) <= 1
    /\ activeSubs \subseteq {unsubscribeRef}

\* The bootstrap has subscribed and the subscription is live.
C4_Witness ==
    /\ lpc = "done" /\ subsCreated = 1
    /\ activeSubs = {unsubscribeRef} /\ unsubscribeRef # 0

\* C5: once the effect cleanup has run, or the component is unmounted, no
\* live subscription is active.
C5_NoSubscriptionAfterCleanup ==
    (cleanupRan \/ phase = "unmounted") => activeSubs = {}

(***************************************************************************)
(* Properties of the vote operations.                                      *)
(***************************************************************************)
\* Calls i and j were made one directly after the other, without overlap:
\* read and update of i, then read and update of j, with no vote step
\* between them.
ConsecutiveVotes(i, j) ==
    /\ voteCalls[i].pc = "done" /\ voteCalls[j].pc = "done"
    /\ voteCalls[i].doneAt = voteCalls[i].readAt + 1
    /\ voteCalls[j].readAt = voteCalls[i].doneAt + 1
    /\ voteCalls[j].doneAt = voteCalls[j].readAt + 1
    /\ voteCalls[i].kind = voteCalls[j].kind
    /\ voteCalls[i].deviceId = voteCalls[j].deviceId
    /\ voteCalls[i].userId = voteCalls[j].userId

C12_CounterMatchesVoters ==
    \A d \in remote : \A kind \in VoteKinds :
       VoteCount(d, kind) = Cardinality(VoteUserSet(d, kind))

(***************************************************************************)
(* Properties of the IndexedDB cache operations.                           *)
(***************************************************************************)
\* C13: a call of isCacheStale whose read succeeds returns true when the
\* store has no metadata record or the record has no timestamp, true when
\* Date.now() - timestamp is greater than 24 hours, and false otherwise (an
\* age of exactly 24 hours is not stale).
C13_StalenessThreshold ==
    (cacheCall.op = "isCacheStale" /\ cacheCall.outcome = "ok") =>
       LET metas == {r \in cacheCall.before : r.id = "cache_metadata"}
       IN  (cacheCall.ret = "true") <=>
              \/ metas = {}
              \/ \E meta \in metas :
                    \/ meta.timestamp = 0
                    \/ dateNow - meta.timestamp > 24 * 60 * 60 * 1000

\* isCacheStale has returned false for metadata exactly 24 hours old.
C13_Witness ==
    /\ cacheCall.op = "isCacheStale" /\ cacheCall.outcome = "ok"
    /\ cacheCall.ret = "false"
    /\ \E r \in cacheCall.before :
          /\ r.id = "cache_metadata"
          /\ dateNow - r.timestamp = 24 * 60 * 60 * 1000

\* C14: a call of getDevicesInBounds whose read succeeds returns exactly
\* the stored device records with south <= latitude <= north and
\* west <= longitude <= east, and never the metadata record.
C14_InBoundsFilter ==
    (cacheCall.op = "getDevicesInBounds" /\ cacheCall.outcome = "ok") =>
       /\ cacheCall.records \subseteq cacheCall.before
       /\ \A r \in cacheCall.before :
             r \in cacheCall.records <=>
                /\ r.id # "cache_metadata"
                /\ cacheCall.bounds.south <= LatitudeOf(r).v
                /\ LatitudeOf(r).v <= cacheCall.bounds.north
                /\ cacheCall.bounds.west <= LongitudeOf(r).v
                /\ LongitudeOf(r).v <= cacheCall.bounds.east

\* Records on the south-west and on the north-east corner of the region are
\* returned from a store that also holds the metadata record.
C14_Witness ==
    /\ cacheCall.op = "getDevicesInBounds" /\ cacheCall.outcome = "ok"
    /\ cacheCall.bounds = Bounds(1, 2, 1, 2)
    /\ {r.id : r \in cacheCall.records} = {"a", "b"}
    /\ \E r \in cacheCall.before : r.id = "cache_metadata"

\* C16: a call of getAllDevices whose read succeeds returns every stored
\* device record and not the metadata record.
C16_GetAllExcludesMetadata ==
    (cacheCall.op = "getAllDevices" /\ cacheCall.outcome = "ok") =>
       cacheCall.records = {r \in cacheCall.before : r.id # "cache_metadata"}

\* C17: no cache operation raises to its caller.
C17_NoCacheOperationRaises == ~cacheCall.raised

(***************************************************************************)
(* Properties of splitBoundingBox.                                         *)
(***************************************************************************)
\* The chunk of row i and column j (both from 0).
ChunkAt(i, j) == chunks[i * splitGrid + j + 1]

\* C15: splitBoundingBox returns n * n sub-regions of latitude span
\* (north - south) / n and longitude span (east - west) / n; the outer
\* edges of the grid are the edges of the region given; and neighbouring
\* rows and columns share their edge.
C15_SplitCoversRegion ==
    spc = "done" =>
       LET n == splitGrid
       IN  /\ Len(chunks) = n * n
           /\ \A i, j \in 0..(n - 1) :
                 LET c == ChunkAt(i, j)
                 IN  /\ n * (c.north - c.south)
                          = splitBounds.north - splitBounds.south
                     /\ n * (c.east - c.west)
                          = splitBounds.east - splitBounds.west
                     /\ i = 0 => c.south = splitBounds.south
                     /\ i = n - 1 => c.north = splitBounds.north
                     /\ j = 0 => c.west = splitBounds.west
                     /\ j = n - 1 => c.east = splitBounds.east
                     /\ i < n - 1 => c.north = ChunkAt(i + 1, j).south
                     /\ j < n - 1 => c.east = ChunkAt(i, j + 1).west

(***************************************************************************)
(* Properties of queryOSMALPRs.                                            *)
(***************************************************************************)
\* Response k is the last one and the query waits to retry, or request
\* k + 1 has been issued for the same bounding box.
RetriedAfter(k) ==
    /\ Len(waits) >= k
    /\ IF Len(responses) = k /\ Len(requestLog) = k
       THEN rpc = "waiting"
       ELSE Len(requestLog) > k /\ requestLog[k + 1] = requestLog[k]

\* C19: a 429 or 503 response to request k, k - 1 < 3 retries having been
\* used, is followed by a wait of 5 s, 10 s or 20 s (5 s * 2^(k-1), at most
\* 30 s) and by the same query again; a 429 or 503 response to the fourth
\* request raises the rate limit error, and there is no fifth request.
C19_RateLimitBackoff ==
    \A k \in 1..Len(responses) :
       (responses[k].kind = "http" /\ responses[k].status \in {429, 503}) =>
          IF k <= 3
          THEN /\ RetriedAfter(k)
               /\ waits[k] = <<5000, 10000, 20000>>[k]
          ELSE /\ rpc = "raised"
               /\ queryError.kind = "rate_limit"
               /\ Len(requestLog) = 4

\* Four rate-limited responses: three waits, then the error.
C19_Witness ==
    /\ Len(responses) = 4
    /\ \A k \in 1..4 : responses[k].status \in {429, 503}
    /\ responses[1].status # responses[4].status
    /\ waits = <<5000, 10000, 20000>>
    /\ rpc = "raised" /\ queryError.kind = "rate_limit"

\* C20: a 504 or other 5xx response except 503 to request k, k - 1 < 3
\* retries having been used, is followed by a wait of 3 s, 6 s or 12 s
\* (3 s * 2^(k-1), at most 20 s) and by the same query again; such a
\* response to the fourth request raises an error carrying the status.
C20_ServerErrorBackoff ==
    \A k \in 1..Len(responses) :
       (responses[k].kind = "http" /\ responses[k].status >= 500
          /\ responses[k].status <= 599 /\ responses[k].status # 503) =>
          IF k <= 3
          THEN /\ RetriedAfter(k)
               /\ waits[k] = <<3000, 6000, 12000>>[k]
          ELSE /\ rpc = "raised"
               /\ queryError.kind = "server"
               /\ queryError.status = responses[k].status
               /\ Len(requestLog) = 4

\* Four server errors: three waits, then the error with the last status.
C20_Witness ==
    /\ Len(responses) = 4
    /\ \A k \in 1..4 : responses[k].status \in {500, 504}
    /\ responses[1].status = 504 /\ responses[4].status = 500
    /\ waits = <<3000, 6000, 12000>>
    /\ rpc = "raised" /\ queryError = [kind |-> "server", status |-> 500]

\* C18: with the storage engine unavailable a completed bootstrap has taken
\* the REBUILDING path, has published the fetched valid records and has
\* attached the subscription; and while the remote store holds valid
\* records, the published set does not become empty afterwards.
C18_StorageUnavailableIsColdCache ==
    (~engineUp /\ lpc = "done" /\ phase = "mounted") =>
       /\ path = "REBUILDING"
       /\ subsCreated = 1
       /\ validDevices = {d \in remote : NumericCoordinates(d)}
       /\ validDevices # {} => devices # {}

\* C21: a rejected fetch or an unparsable body as the outcome of request k,
\* k - 1 < 3 retries having been used, is followed by a wait of 2 s, 4 s or
\* 8 s (2 s * 2^(k-1), at most 10 s) and by the same query again; such an
\* outcome reaches the caller as an error only at the fourth request.
C21_NetworkBackoff ==
    \A k \in 1..Len(responses) :
       responses[k].kind \in {"network_fetch", "network_other", "json"} =>
          IF k <= 3
          THEN /\ RetriedAfter(k)
               /\ waits[k] = <<2000, 4000, 8000>>[k]
          ELSE /\ rpc = "raised"
               /\ queryError.kind = responses[k].kind
               /\ Len(requestLog) = 4

\* C22: when queryOSMALPRsBatched returns after a chunk has failed, the
\* value it returns carries the merged elements and the list of failed
\* chunks.
C22_ReturnsFailedChunks ==
    (qpc = "done" /\ failedChunks # <<>>) =>
        /\ QueryReturn.elements = uniqueElements
        /\ "failedChunks" \in DOMAIN QueryReturn
        /\ QueryReturn.failedChunks = failedChunks

\* C23: two calls of openDB of which the second started before the first
\* had resolved, and which both resolved, were given the same connection,
\* and one indexedDB.open request served both.
C23_ConcurrentOpenSharesHandle ==
    \A i, j \in 1..Len(openCalls) :
       (/\ i \in openCalls[j].pendingAtStart
        /\ openCalls[i].state \in {"resolved", "cleared"}
        /\ openCalls[j].state \in {"resolved", "cleared"}) =>
          /\ openCalls[i].handle = openCalls[j].handle
          /\ ~openCalls[j].opened

\* C24: once loadDevices has chosen its path, the path is FRESH_FROM_CACHE
\* exactly when isCacheStale returned false and the cache read holds at
\* least one device record, and REBUILDING otherwise; FRESH_FROM_CACHE has
\* issued no full remote fetch and REBUILDING has issued exactly one.
C24_PathChoice ==
    path # "none" =>
        /\ path \in {"FRESH_FROM_CACHE", "REBUILDING"}
        /\ (path = "FRESH_FROM_CACHE") =
              (~cacheStale /\ DeviceRecords(cachedDevices) # {})
        /\ path = "FRESH_FROM_CACHE" => fetches = 0
        /\ path = "REBUILDING" => fetches = 1

\* C25: a bootstrap that has started and is no longer running has attached
\* the live subscription, whatever the cache reads and the full remote
\* fetch resulted in: loadDevices does not end in its catch block with no
\* subscription.
C25_BootstrapReachesStreaming ==
    (loadStarts > 0 /\ loadsRunning = 0) =>
        /\ lpc = "done"
        /\ subsCreated > 0
        /\ unsubscribeRef # 0

\* C26: when the only batch delivered so far has been processed and no
\* storage operation has failed, every record of the batch that passes the
\* coordinate check is in the cache as delivered, no record of the batch
\* that fails the check is in the cache, and the published set is the whole
\* content of the cache.
C26_BatchUpsertedAndRepublished ==
    (/\ Len(callbacks) = 1
     /\ callbacks[1].pc = "done"
     /\ ~storageFailed
     /\ phase = "mounted") =>
        LET batch == Range(callbacks[1].batch)
        IN  /\ \A d \in batch : NumericCoordinates(d) => d \in idb
            /\ \A d \in batch : ~NumericCoordinates(d) => d \notin idb
            /\ devices = idb

\* A batch with a record whose cached version differed, a new record and a
\* record without a latitude has been processed.
C26_Witness ==
    /\ Len(callbacks) = 1
    /\ callbacks[1].pc = "done"
    /\ ~storageFailed
    /\ phase = "mounted"
    /\ path = "FRESH_FROM_CACHE"
    /\ SyncDoc("a", Num(9), Num(9)) \in cachedDevices
    /\ {SyncDoc("a", Num(1), Num(1)), SyncDoc("b", Num(2), Num(2)),
        SyncDoc("c", Null, Num(3))} \subseteq Range(callbacks[1].batch)
    /\ SyncDoc("a", Num(1), Num(1)) \in devices
    /\ SyncDoc("b", Num(2), Num(2)) \in devices

\* The state InitStream starts from is a state of SpecSync.
StreamStartReached ==
    /\ remote \in StreamRemotes /\ remote # {}
    /\ phase = "mounted" /\ ~authLoading /\ authChanges = 0
    /\ lpc = "done" /\ path = "REBUILDING" /\ ~storageFailed
    /\ activeSubs = {1} /\ unsubscribeRef = 1
    /\ devices = remote
    /\ idb = remote \cup {Metadata(CachedAt + hours24 + 1, Cardinality(remote))}
    /\ callbacks = <<>>

\* C27: when a batch was delivered while an earlier callback was still
\* running, and every callback has ended with no storage failure, the
\* cache and the published set hold every valid record of the most
\* recently delivered batch in the version of that batch.
C27_LatestBatchWins ==
    (/\ Len(callbacks) >= 2
     /\ callbacks[Len(callbacks)].during # {}
     /\ \A c \in 1..Len(callbacks) : callbacks[c].pc = "done"
     /\ ~storageFailed) =>
        \A d \in Range(callbacks[Len(callbacks)].batch) :
           NumericCoordinates(d) => (d \in idb /\ d \in devices)

\* A record that has a latitude and a longitude, both numbers.
PresentNumericCoordinates(d) ==
    /\ "latitude" \in DOMAIN d
    /\ "longitude" \in DOMAIN d
    /\ NumericCoordinates(d)

\* C28: in every state, every device record of the local cache and every
\* record of the set published with setDevices has a latitude and a
\* longitude that are numbers.
C28_OnlyNumericCoordinates ==
    /\ \A d \in DeviceRecords(idb) : PresentNumericCoordinates(d)
    /\ \A d \in devices : PresentNumericCoordinates(d)

(***************************************************************************)
(* Properties of storeDevices.                                             *)
(***************************************************************************)
\* The call has returned true and none of its requests failed.
StoreSucceeded ==
    /\ storeCall.pc = "returned"
    /\ storeCall.ret = "true"
    /\ ~storeCall.failed

GivenIds == {storeCall.devices[k].id : k \in 1..Len(storeCall.devices)}
CachedIds == {r.id : r \in DeviceRecords(idb)}

C30_IncrementalReconciles ==
    /\ (StoreSucceeded /\ ~storeCall.isFullRefresh
          /\ Len(storeCall.devices) > 0) =>
          /\ DeviceRecords(idb) \subseteq Range(storeCall.devices)
          /\ CachedIds = GivenIds
    /\ (storeCall.pc = "meta" /\ ~storeCall.failed
          /\ ~storeCall.isFullRefresh /\ Len(storeCall.devices) > 0) =>
          MetaRecords(idb) = MetaRecords(storeCall.before)

\* An incremental call with a and b over a cache that held another
\* version of a, the device z and metadata: z is gone, a is replaced.
C30_Witness ==
    /\ StoreSucceeded /\ ~storeCall.isFullRefresh
    /\ storeCall.devices = <<SyncDoc("a", Num(1), Num(1)),
                             SyncDoc("b", Num(2), Num(2))>>
    /\ storeCall.before = {SyncDoc("a", Num(9), Num(9)),
                           SyncDoc("z", Num(5), Num(5)), Metadata(CachedAt, 2)}
    /\ idb = {SyncDoc("a", Num(1), Num(1)), SyncDoc("b", Num(2), Num(2)),
              Metadata(dateNow, 2)}

\* C31: a successful storeDevices([], false) leaves the device records
\* and the metadata record (timestamp and deviceCount) of the cache as
\* they were; a successful storeDevices([], true) leaves no device record.
C31_EmptyInputNoOp ==
    /\ (StoreSucceeded /\ Len(storeCall.devices) = 0
          /\ ~storeCall.isFullRefresh) =>
          /\ DeviceRecords(idb) = DeviceRecords(storeCall.before)
          /\ MetaRecords(idb) = MetaRecords(storeCall.before)
    /\ (StoreSucceeded /\ Len(storeCall.devices) = 0
          /\ storeCall.isFullRefresh) =>
          DeviceRecords(idb) = {}

(***************************************************************************)
(* Properties of clearCache.                                               *)
(***************************************************************************)
\* The calls of clearCache whose store.clear() has succeeded.
ClearedCalls == {i \in 1..Len(openCalls) : openCalls[i].state = "cleared"}

\* The first call of openDB made after the clear of call i succeeded.
NextOpenAfter(i) == openCalls[openCalls[i].callsAtClear + 1]

\* C32: after a successful clearCache the store holds no device record
\* and no metadata record, isCacheStale gives true, and the next call of
\* openDB issues an open request and gets a connection other than the one
\* the clearCache call held.
C32_ClearResetsStoreAndHandle ==
    \A i \in ClearedCalls :
        /\ (Len(openCalls) = openCalls[i].callsAtClear) =>
              /\ DeviceRecords(idb) = {}
              /\ MetaRecords(idb) = {}
              /\ IsStale(idb, dateNow)
        /\ (Len(openCalls) > openCalls[i].callsAtClear) =>
              /\ NextOpenAfter(i).opened
              /\ NextOpenAfter(i).handle # openCalls[i].handle

(***************************************************************************)
(* Properties of importOSMData: records without coordinates, counters.     *)
(***************************************************************************)
\* The element has neither lat and lon of its own nor a center.
Unresolvable(element) ==
    /\ element.lat = Undefined \/ element.lon = Undefined
    /\ ~element.center.has

UnresolvableCount ==
    Cardinality({k \in 1..Len(osmElements) : Unresolvable(osmElements[k])})

\* C33: in an import, every element with neither a point of its own nor
\* a center, of whatever type, is counted in skipped and is in no batch:
\* skipped is at least the number of these elements, and no record handed
\* to batchAddDevices has an undefined latitude or longitude.
C33_UnresolvableSkipped ==
    (ipc \in {"batch", "done"}) =>
        /\ results.skipped >= UnresolvableCount
        /\ \A k \in 1..Len(writeCalls) :
              \A d \in Range(writeCalls[k].devices) :
                  d.latitude # Undefined /\ d.longitude # Undefined

RECURSIVE SumOfCounts(_)
SumOfCounts(list) ==
    IF list = <<>> THEN 0 ELSE Head(list).count + SumOfCounts(Tail(list))

\* The elements of the input that convertOSMToPeekBack turns into a record.
ConvertedCount ==
    Cardinality({k \in 1..Len(osmElements) :
                    ~convertOSMToPeekBack(osmElements[k]).isNull})

\* C34: when importOSMData has returned, total is the length of the input
\* and equals imported + skipped + errors, imported + errors is the number
\* of converted records, and the counts of errorsList add up to errors.
C34_CountersAddUp ==
    (ipc = "done") =>
        /\ results.total = Len(osmElements)
        /\ results.total = results.imported + results.skipped + results.errors
        /\ results.imported + results.errors = ConvertedCount
        /\ SumOfCounts(results.errorsList) = results.errors

\* An import with skipped elements and three batches, of which the first
\* and the third failed.
C34_Witness ==
    /\ ipc = "done"
    /\ results.skipped > 0
    /\ Len(writeCalls) = 3
    /\ Raised(writeCalls[1].outcome)
    /\ writeCalls[2].outcome = "ok"
    /\ Raised(writeCalls[3].outcome)
    /\ Len(results.errorsList) = 2
    /\ results.imported = BATCH_SIZE

(***************************************************************************)
(* Properties of queryOSMALPRs: the number of requests and the end.        *)
(***************************************************************************)
\* A response with a status that is neither 2xx, nor 429, nor 5xx.
ClientError(outcome) ==
    /\ outcome.kind = "http"
    /\ outcome.status < 500
    /\ outcome.status # 429

\* At most 4 requests are issued, and a request answered with a client
\* error is the last one: the call has raised and no wait followed.
RequestsBounded ==
    /\ Len(requestLog) <= 4
    /\ retryCount = Len(requestLog) - (IF rpc = "idle" THEN 0 ELSE 1)
    /\ \A k \in 1..Len(responses) :
          ClientError(responses[k]) =>
              /\ k = Len(responses)
              /\ Len(requestLog) = k
              /\ Len(waits) = k - 1
              /\ rpc = "raised"

QueryEnded == rpc \in {"returned", "raised"}

\* C35: whatever the requests of one call of queryOSMALPRs end in, the
\* call issues at most 4 requests with one retryCount for all kinds of
\* failure, a response that is not 2xx, 429 or 5xx makes it raise at once
\* with no retry, and every call ends by returning or raising.
C35_AtMostFourRequests ==
    /\ []RequestsBounded
    /\ (rpc = "fetching") ~> QueryEnded

\* Four requests that ended in a rate limit, a server error, a rejected
\* fetch and a body that is not JSON: the call has raised.
C35_Witness ==
    /\ rpc = "raised"
    /\ Len(requestLog) = 4
    /\ responses[1] = Http(429)
    /\ responses[2] = Http(500)
    /\ responses[3].kind = "network_fetch"
    /\ responses[4].kind = "json"

\* C36: the array queryOSMALPRsBatched returns holds exactly one element
\* for every pair of element type and id among the elements the chunks
\* returned, so a node and a way with one numeric id are both in it.
C36_OnePerTypeAndId ==
    qpc = "done" =>
        \A k \in 1..Len(allElements) :
            Cardinality({i \in 1..Len(uniqueElements) :
                            /\ uniqueElements[i].type = allElements[k].type
                            /\ uniqueElements[i].id = allElements[k].id}) = 1

(***************************************************************************)
(* Properties of a re-import.                                              *)
(***************************************************************************)
\* The documents a committed write of importOSMData leaves under the
\* identifiers it was given.
CommittedDocs(store, call) == {d \in store : d.id \in Range(call.ids)}

NoVotes(d) ==
    /\ d.thumbsUp = 0
    /\ d.thumbsUpUsers = {}
    /\ d.inactiveReports = 0
    /\ d.inactiveReportUsers = {}

\* C37: when a batch of an import is committed, every document it wrote,
\* also one that existed with votes, has both counters 0 and both voter
\* sets empty, and there is one document for every identifier written.
C37_ReimportResetsVotes ==
    [][(/\ Len(writeCalls') = Len(writeCalls) + 1
        /\ writeCalls'[Len(writeCalls')].outcome = "ok")
       => LET call == writeCalls'[Len(writeCalls')]
          IN  /\ \A d \in CommittedDocs(remote', call) : NoVotes(d)
              /\ {d.id : d \in CommittedDocs(remote', call)} = Range(call.ids)
              /\ Cardinality(CommittedDocs(remote', call))
                   = Cardinality(Range(call.ids))]_vars

\* The second import has rewritten osm_node_1, which had a confirm vote of
\* u1 when that import started.
C37_Witness ==
    /\ run = 2
    /\ ipc = "done"
    /\ Len(writeCalls) = 1
    /\ writeCalls[1].outcome = "ok"
    /\ \E d \in prevRun.remote :
          /\ d.id = "osm_node_1"
          /\ d.thumbsUp = 1
          /\ d.thumbsUpUsers = {"u1"}
    /\ \E d \in remote : d.id = "osm_node_1" /\ NoVotes(d)
    /\ \A i \in 1..Len(voteCalls) : voteCalls[i].pc # "updating"

(***************************************************************************)
(* Properties of the bootstrap and of the streaming phase.                 *)
(***************************************************************************)
\* loadDevices is between the start of the full remote fetch and the end
\* of storeDevices(validDevices, true).
Rebuilding ==
    /\ path = "REBUILDING"
    /\ lpc \in {"fetch", "store_clear", "store_put", "store_meta"}

\* C38: while loadDevices is between the start of the full remote fetch
\* and the end of storeDevices, no subscription has been attached and no
\* subscription callback has been started, so no upsertDevice of a
\* callback runs then and the full refresh overwrites no record that a
\* callback wrote; the callbacks run only when the bootstrap is done.
C38_SubscribeAfterStore ==
    /\ Rebuilding =>
          /\ activeSubs = {}
          /\ subsCreated = 0
          /\ callbacks = <<>>
    /\ (callbacks # <<>>) => lpc = "done"

\* The full refresh has put the fetched devices and is about to write the
\* metadata; no listener is attached.
C38_Witness ==
    /\ Rebuilding
    /\ lpc = "store_meta"
    /\ validDevices # {}
    /\ DeviceRecords(idb) = validDevices
    /\ activeSubs = {}

\* A step of a subscription callback: an upsertDevice, or the read of the
\* cache with setDevices.
CallbackStep ==
    /\ callbacks' # callbacks
    /\ Len(callbacks') = Len(callbacks)

CachedDeviceIds(store) == {r.id : r \in DeviceRecords(store)}

\* C39: a step of a subscription callback removes no device record from
\* the cache and leaves the metadata record as it is, and a set it
\* publishes holds a record for every cached device, also for a device
\* that is no longer in the remote store.
C39_StreamingNeverDeletes ==
    [][CallbackStep =>
         /\ CachedDeviceIds(idb) \subseteq CachedDeviceIds(idb')
         /\ MetaRecords(idb') = MetaRecords(idb)
         /\ (devices' # devices) =>
               CachedDeviceIds(idb) \subseteq {d.id : d \in devices'}]_vars

\* C40: when storeDevices(devices, true) with devices returns false after
\* its store.clear() has succeeded (a batch of puts or the metadata write
\* failed), the cache holds no metadata record and isCacheStale gives
\* true.
C40_FailedRefreshLeavesNoMetadata ==
    [][(/\ storeCall.isFullRefresh
        /\ Len(storeCall.devices) > 0
        /\ storeCall.pc \in {"put", "meta"}
        /\ storeCall'.pc = "returned"
        /\ storeCall'.ret = "false")
       => /\ MetaRecords(idb') = {}
          /\ IsStale(idb', dateNow')]_vars

\* A full refresh with 4001 devices over a cache with metadata, whose
\* second batch failed: the first batch is in the cache, no metadata.
C40_Witness ==
    /\ storeCall.pc = "returned"
    /\ storeCall.ret = "false"
    /\ storeCall.isFullRefresh
    /\ Len(storeCall.devices) = 2 * STORE_BATCH_SIZE + 1
    /\ storeCall.batchIndex = 1
    /\ MetaRecords(storeCall.before) # {}
    /\ Cardinality(DeviceRecords(idb)) = STORE_BATCH_SIZE
    /\ MetaRecords(idb) = {}
====
